---------------------------- MODULE Spec2Model ----------------------------
(***************************************************************************)
(* Portfolio stress testing: the economic-scenario transform               *)
(* (src/economic_scenarios.py) and the Monte Carlo engine                  *)
(* (src/monte_carlo.py).                                                   *)
(*                                                                         *)
(* Numbers.  The program computes in IEEE doubles.  The model computes in  *)
(* exact rationals <<n, d>> (d > 0, lowest terms) and carries the one      *)
(* non-number the code paths can produce, NaN, as <<0, 0>>.  Arithmetic on *)
(* NaN gives NaN and every comparison with NaN is false, as in the build.  *)
(* Rounding error of doubles is NOT modelled: an equality the model proves *)
(* holds of the real-number computation the code performs.                 *)
(***************************************************************************)
EXTENDS Integers, Sequences, FiniteSets, TLC

(***************************************************************************)
(* Bounds of the model.                                                    *)
(***************************************************************************)
MaxRows == 3

(***************************************************************************)
(* Rational arithmetic with NaN.                                           *)
(***************************************************************************)
Abs(n) == IF n < 0 THEN -n ELSE n

RECURSIVE GCD(_, _)
GCD(a, b) == IF b = 0 THEN a ELSE GCD(b, a % b)

R(n, d) ==
    LET s == IF d < 0 THEN -1 ELSE 1
        g == GCD(Abs(n), Abs(d))
    IN  <<(s * n) \div g, (s * d) \div g>>

NaN == <<0, 0>>
Zero == <<0, 1>>
One == <<1, 1>>

IsNaN(x) == x[2] = 0

RNeg(x) == IF IsNaN(x) THEN NaN ELSE <<-x[1], x[2]>>

RAdd(x, y) ==
    IF IsNaN(x) \/ IsNaN(y) THEN NaN
    ELSE LET g == GCD(x[2], y[2])
             l == (x[2] \div g) * y[2]
         IN  R(x[1] * (l \div x[2]) + y[1] * (l \div y[2]), l)

RSub(x, y) == RAdd(x, RNeg(y))

RMul(x, y) ==
    IF IsNaN(x) \/ IsNaN(y) THEN NaN
    ELSE LET g1 == GCD(Abs(x[1]), y[2])
             g2 == GCD(Abs(y[1]), x[2])
         IN  R((x[1] \div g1) * (y[1] \div g2), (x[2] \div g2) * (y[2] \div g1))

\* x / y.  No code path of the model divides by zero (prices are positive,
\* 1 + peak >= 1, the weight total is checked to be > 0).
RDiv(x, y) ==
    IF IsNaN(x) \/ IsNaN(y) \/ y[1] = 0 THEN NaN
    ELSE RMul(x, R(y[2], y[1]))

RLt(x, y) == ~IsNaN(x) /\ ~IsNaN(y) /\ x[1] * y[2] < y[1] * x[2]
RLe(x, y) == ~IsNaN(x) /\ ~IsNaN(y) /\ x[1] * y[2] <= y[1] * x[2]
RGt(x, y) == RLt(y, x)

RECURSIVE RSum(_)
RSum(s) == IF s = <<>> THEN Zero ELSE RAdd(s[1], RSum(Tail(s)))

(***************************************************************************)
(* The scenario catalog and the sector map (module-level tables).          *)
(***************************************************************************)
Sectors ==
    {"Technology", "Financial", "Healthcare", "Energy", "Consumer",
     "Industrial", "Materials", "Utilities", "Real Estate"}

\* One impact_factor table, in the order the source lists the sectors;
\* the entries are hundredths.
ImpactTable(te, fi, he, en, co, ind, ma, ut, re) ==
    [s \in Sectors |->
        CASE s = "Technology" -> R(te, 100)
          [] s = "Financial" -> R(fi, 100)
          [] s = "Healthcare" -> R(he, 100)
          [] s = "Energy" -> R(en, 100)
          [] s = "Consumer" -> R(co, 100)
          [] s = "Industrial" -> R(ind, 100)
          [] s = "Materials" -> R(ma, 100)
          [] s = "Utilities" -> R(ut, 100)
          [] s = "Real Estate" -> R(re, 100)]

ScenarioEntry(desc, ra, va, ca, da, impact) ==
    [description |-> desc,
     returns_adjustment |-> R(ra, 100),
     volatility_adjustment |-> R(va, 100),
     correlation_adjustment |-> R(ca, 100),
     drawdown_adjustment |-> R(da, 100),
     impact_factor |-> impact]

ScenarioNames ==
    {"Normal Market", "Market Crash", "Recession", "Inflation Surge",
     "Tech Bubble Burst", "Pandemic"}

ECONOMIC_SCENARIOS ==
    [name \in ScenarioNames |->
        CASE name = "Normal Market" ->
                ScenarioEntry("Base case scenario with normal market conditions",
                    0, 100, 0, 0, ImpactTable(0, 0, 0, 0, 0, 0, 0, 0, 0))
          [] name = "Market Crash" ->
                ScenarioEntry("Severe and sudden market downturn across all sectors",
                    -25, 250, 30, 15,
                    ImpactTable(-30, -35, -20, -25, -25, -30, -25, -15, -30))
          [] name = "Recession" ->
                ScenarioEntry("Economic contraction with prolonged negative growth",
                    -15, 180, 20, 10,
                    ImpactTable(-20, -25, -10, -20, -20, -25, -20, -10, -25))
          [] name = "Inflation Surge" ->
                ScenarioEntry("Rapid increase in inflation rates affecting purchasing power",
                    -5, 140, 10, 5,
                    ImpactTable(-15, 5, -10, 10, -20, -10, 5, -5, -20))
          [] name = "Tech Bubble Burst" ->
                ScenarioEntry("Sharp correction in technology sector valuations",
                    -10, 160, 10, 8,
                    ImpactTable(-40, -15, -5, 0, -10, -10, -5, 5, -10))
          [] name = "Pandemic" ->
                ScenarioEntry("Global health crisis affecting economic activity",
                    -20, 220, 25, 12,
                    ImpactTable(10, -25, 15, -30, -20, -25, -20, -10, -25))]

\* The instruments of the model.  SECTOR_MAPPING is the source's table
\* restricted to them: AAPL, JPM and XOM are keys, BBCA is not (the source
\* lists the Indonesian stocks under their ".JK" names only).
Symbols == {"AAPL", "JPM", "XOM", "BBCA"}

SECTOR_MAPPING ==
    [s \in {"AAPL", "JPM", "XOM", "BBCA.JK", "DEFAULT"} |->
        CASE s = "AAPL" -> "Technology"
          [] s = "JPM" -> "Financial"
          [] s = "XOM" -> "Energy"
          [] s = "BBCA.JK" -> "Financial"
          [] s = "DEFAULT" -> "Unknown"]

get_symbol_sector(symbol) ==
    IF symbol \in DOMAIN SECTOR_MAPPING
    THEN SECTOR_MAPPING[symbol]
    ELSE SECTOR_MAPPING["DEFAULT"]

\* dict.get(key, default)
DictGet(d, key, default) == IF key \in DOMAIN d THEN d[key] ELSE default


(***************************************************************************)
(* State.                                                                  *)
(***************************************************************************)
VARIABLES
    heap,             \* the DataFrame objects: heap[ref] is the table of ref
    historical_data,  \* argument: reference of the price table
    scenario_params,  \* argument of apply_economic_scenario
    portfolio_data,   \* argument: the rows [Symbol, Weight] of the allocation
    num_simulations,  \* argument of run_monte_carlo_simulation
    time_horizon,     \* argument of run_monte_carlo_simulation
    random_seed,      \* argument of run_monte_carlo_simulation (None: no seed)
    rng,              \* numpy's global generator (np.random), process state
    stdout,           \* what the calls printed
    adjusted_data,    \* reference apply_economic_scenario returned (0: none)
    simulation_data,  \* the ensemble run_monte_carlo_simulation returned
    raised,           \* the exception the call ended with ("": none)
    pc,               \* "start" before the call, "done" after it
    calls,            \* the risk-metric and repeated calls made so far, in
                      \* order: [op, args, value, raised] each
    session_state     \* the app's st.session_state: [portfolio_data,
                      \* simulation_results, risk_metrics, forecast_data,
                      \* build_portfolio]

vars ==
    <<heap, historical_data, scenario_params, portfolio_data, num_simulations,
      time_horizon, random_seed, rng, stdout, adjusted_data, simulation_data,
      raised, pc, calls, session_state>>

\* None, where the other values are records
PyNone == [none |-> TRUE]

\* the session state outside the app, and before the app's first run
\* (src/app.py:32-39); portfolio_data is a sequence of rows, <<>> for None
NoSessionState ==
    [portfolio_data |-> <<>>, simulation_results |-> PyNone,
     risk_metrics |-> PyNone, forecast_data |-> PyNone,
     build_portfolio |-> <<>>]

(***************************************************************************)
(* pandas DataFrames: [index, columns, values], values row-major, one row  *)
(* per index label and one cell per column.  Index labels and column       *)
(* names are unique (PriceTable).                                          *)
(***************************************************************************)
DataFrame(index, columns, values) ==
    [index |-> index, columns |-> columns, values |-> values]

RECURSIVE Position(_, _)
\* position of label x in the sequence s (x is in s)
Position(s, x) == IF Head(s) = x THEN 1 ELSE 1 + Position(Tail(s), x)

\* df.loc[label, column]
Loc(df, label, column) ==
    df.values[Position(df.index, label)][Position(df.columns, column)]

\* df.loc[label, column] = v   (label and column exist: no enlargement)
SetLoc(df, label, column, v) ==
    LET i == Position(df.index, label)
        j == Position(df.columns, column)
    IN  [df EXCEPT !.values[i][j] = v]

\* df.pct_change(): row 1 has no predecessor; a change from or to a missing
\* cell is missing.  (The tables of the model hold columns that are fully
\* priced or fully missing, so pandas' optional forward fill of gaps before
\* the division changes nothing here.)
pct_change(df) ==
    DataFrame(df.index, df.columns,
        [i \in 1..Len(df.index) |->
            [j \in 1..Len(df.columns) |->
                IF i = 1 THEN NaN
                ELSE RSub(RDiv(df.values[i][j], df.values[i - 1][j]), One)]])

RECURSIVE KeptRows(_, _)
\* the row positions >= i of df that hold no NaN, in order
KeptRows(df, i) ==
    IF i > Len(df.index) THEN <<>>
    ELSE IF \A j \in 1..Len(df.columns) : ~IsNaN(df.values[i][j])
         THEN <<i>> \o KeptRows(df, i + 1)
         ELSE KeptRows(df, i + 1)

\* df.dropna(): drops every row holding a NaN; the columns stay
dropna(df) ==
    LET keep == KeptRows(df, 1)
    IN  DataFrame([k \in 1..Len(keep) |-> df.index[keep[k]]],
                  df.columns,
                  [k \in 1..Len(keep) |-> df.values[keep[k]]])

\* the column at position j of df holds no price at all
FullyMissingColumn(df, j) ==
    \A i \in 1..Len(df.index) : IsNaN(df.values[i][j])

\* (faulty variant: no copy, the same object)
DataFrameCopyAlias(h, ref) == [heap |-> h, ref |-> ref]

\* df.copy(): a new object holding the same cells
DataFrameCopy(h, ref) == [heap |-> Append(h, h[ref]), ref |-> Len(h) + 1]

(***************************************************************************)
(* apply_economic_scenario                                                 *)
(***************************************************************************)
TradingDays == 252

\* (faulty variant: the daily shift left out)
AdjustReturnsNoShift(returns, j, vol_adj, total_returns_adj) ==
    [k \in 1..Len(returns.index) |-> RMul(returns.values[k][j], vol_adj)]

\* returns[column] * vol_adj + total_returns_adj / 252, one entry per row
\* of returns
AdjustReturns(returns, j, vol_adj, total_returns_adj) ==
    [k \in 1..Len(returns.index) |->
        RAdd(RMul(returns.values[k][j], vol_adj),
             RDiv(total_returns_adj, R(TradingDays, 1)))]

\* (faulty variant: compounds from the table's row before the first return
\* date, applying the first adjusted return too)
RECURSIVE ReconstructPricesFromRow0(_, _, _, _, _, _, _)
ReconstructPricesFromRow0(h, a, returns, column, adjusted_returns, start_price, i) ==
    IF i > Len(returns.index) THEN h
    ELSE LET date == returns.index[i]
             prev == IF i = 1
                     THEN h[a].values[Position(h[a].index, date) - 1]
                                     [Position(h[a].columns, column)]
                     ELSE Loc(h[a], returns.index[i - 1], column)
             h1 == [h EXCEPT ![a] =
                      SetLoc(h[a], date, column,
                             RMul(prev, RAdd(One, adjusted_returns[i])))]
         IN  ReconstructPricesFromRow0(h1, a, returns, column,
                                       adjusted_returns, start_price, i + 1)

RECURSIVE ReconstructPrices(_, _, _, _, _, _, _)
\* the date loop: writes the column's cells of the table a, in heap h
ReconstructPrices(h, a, returns, column, adjusted_returns, start_price, i) ==
    IF i > Len(returns.index) THEN h
    ELSE LET date == returns.index[i]
             h1 == IF i = 1
                   THEN [h EXCEPT ![a] = SetLoc(h[a], date, column, start_price)]
                   ELSE LET prev_date == returns.index[i - 1]
                            prev_price == Loc(h[a], prev_date, column)
                        IN  [h EXCEPT ![a] =
                               SetLoc(h[a], date, column,
                                      RMul(prev_price,
                                           RAdd(One, adjusted_returns[i])))]
         IN  ReconstructPrices(h1, a, returns, column, adjusted_returns,
                               start_price, i + 1)

RECURSIVE AdjustColumns(_, _, _, _, _)
\* the column loop, from column position j on.  returns.index[0] raises
\* IndexError when the return table has no row.
AdjustColumns(h, a, returns, params, j) ==
    IF j > Len(returns.columns) THEN [heap |-> h, raised |-> ""]
    ELSE LET column == returns.columns[j]
             sector == get_symbol_sector(column)
             sector_impact == DictGet(params.impact_factor, sector, Zero)
             total_returns_adj == RAdd(params.returns_adjustment, sector_impact)
             adjusted_returns ==
                 AdjustReturns(returns, j, params.volatility_adjustment,
                               total_returns_adj)
         IN  IF Len(returns.index) = 0
             THEN [heap |-> h, raised |-> "IndexError"]
             ELSE LET start_idx == returns.index[1]
                      start_price == Loc(h[a], start_idx, column)
                  IN  AdjustColumns(
                          ReconstructPrices(h, a, returns, column,
                                            adjusted_returns, start_price, 1),
                          a, returns, params, j + 1)

\* the whole function: [heap, ref (0 when it raised), raised]
apply_economic_scenario(h, hist, params) ==
    LET c == DataFrameCopy(h, hist)
        returns == dropna(pct_change(h[hist]))
        out == AdjustColumns(c.heap, c.ref, returns, params, 1)
    IN  [heap |-> out.heap,
         ref |-> IF out.raised = "" THEN c.ref ELSE 0,
         raised |-> out.raised]

(***************************************************************************)
(* The catalog's objects.  ECONOMIC_SCENARIOS is a dict of dicts: each     *)
(* scenario is one dict object and its impact_factor is another, which the *)
(* scenario holds by reference.  CatalogObjects lays them out in a heap:   *)
(* the scenario of the k-th name at reference 2k - 1, its impact_factor    *)
(* table at 2k.  The bindings name -> scenario object are never assigned.  *)
(***************************************************************************)
CatalogOrder ==
    <<"Normal Market", "Market Crash", "Recession", "Inflation Surge",
      "Tech Bubble Burst", "Pandemic">>

ScenarioRef(name) == 2 * Position(CatalogOrder, name) - 1

CatalogObjects ==
    [ref \in 1..(2 * Len(CatalogOrder)) |->
        IF ref % 2 = 1
        THEN [ECONOMIC_SCENARIOS[CatalogOrder[(ref + 1) \div 2]]
                  EXCEPT !.impact_factor = ref + 1]
        ELSE ECONOMIC_SCENARIOS[CatalogOrder[ref \div 2]].impact_factor]

\* the scenario object at ref with its impact_factor table read through
\* the reference
Scenario(h, ref) == [h[ref] EXCEPT !.impact_factor = h[h[ref].impact_factor]]

\* ECONOMIC_SCENARIOS[name] as a caller reads it now
CatalogEntry(h, name) == Scenario(h, ScenarioRef(name))

\* dict.copy(): a new dict holding the same values; a value that is a
\* reference is copied as the reference
DictCopy(h, ref) == [heap |-> Append(h, h[ref]), ref |-> Len(h) + 1]

\* the keys whose value in a scenario is a dict
DictFields == {"impact_factor"}

\* for subkey, subvalue in value.items():
\*     if subkey in custom_scenario[key]: custom_scenario[key][subkey] = subvalue
UpdateNested(h, ref, value) ==
    [h EXCEPT ![ref] =
        [subkey \in DOMAIN h[ref] |->
            IF subkey \in DOMAIN value THEN value[subkey] ELSE h[ref][subkey]]]

\* the loop over custom_adjustments.items(); an item is
\* [key, value, is_dict], the keys of one dict being different
RECURSIVE ApplyAdjustments(_, _, _, _)
ApplyAdjustments(h, custom_scenario, items, k) ==
    IF k > Len(items) THEN h
    ELSE LET key == items[k].key
             value == items[k].value
         IN  IF key \notin DOMAIN h[custom_scenario]
             THEN ApplyAdjustments(h, custom_scenario, items, k + 1)
             ELSE IF key \in DictFields /\ items[k].is_dict
             THEN ApplyAdjustments(
                      UpdateNested(h, h[custom_scenario][key], value),
                      custom_scenario, items, k + 1)
             ELSE ApplyAdjustments(
                      [h EXCEPT ![custom_scenario] =
                          [f \in DOMAIN h[custom_scenario] |->
                              IF f = key THEN value ELSE h[custom_scenario][f]]],
                      custom_scenario, items, k + 1)

\* generate_custom_scenario: [heap, ref (0 when it raised), raised].
\* custom_adjustments is the sequence of the dict's items; None and the
\* empty dict are both <<>>.
generate_custom_scenario(h, base_scenario, custom_adjustments) ==
    IF base_scenario \notin ScenarioNames
    THEN [heap |-> h, ref |-> 0,
          raised |-> "ValueError: Base scenario not found"]
    ELSE LET c == DictCopy(h, ScenarioRef(base_scenario))
         IN  IF custom_adjustments = <<>>
             THEN [heap |-> c.heap, ref |-> c.ref, raised |-> ""]
             ELSE [heap |-> ApplyAdjustments(c.heap, c.ref, custom_adjustments, 1),
                   ref |-> c.ref, raised |-> ""]

\* get_scenario_description: the str it returns
get_scenario_description(h, scenario_name) ==
    IF scenario_name \in ScenarioNames
    THEN DictGet(h[ScenarioRef(scenario_name)], "description",
                 "No description available")
    ELSE "Scenario not found"

(***************************************************************************)
(* numpy's global generator.  A generator state is [seed, pos]: the stream *)
(* np.random.seed(seed) starts and how many normal variates were taken     *)
(* from it.  The k-th variate of a stream is a function of (seed, k): the  *)
(* k-th base-|DrawValues| digit of the seed picks it, so the seeds         *)
(* 0 .. |DrawValues|^DrawLen - 1 start every sequence of DrawLen variates. *)
(* Positions are kept modulo DrawLen.                                      *)
(***************************************************************************)
DrawLen == 4

\* the values a draw from Normal(mean, vol), vol > 0, takes in the model
\* (the normal distribution has every real in its support)
DrawValues == <<R(-3, 2), R(-1, 4), R(1, 2)>>

RECURSIVE Pow(_, _)
Pow(b, e) == IF e = 0 THEN 1 ELSE b * Pow(b, e - 1)

Seeds == 0..(Pow(Len(DrawValues), DrawLen) - 1)

None == -1

\* np.random.seed(seed)
SeedGenerator(seed) == [seed |-> seed, pos |-> 0]

\* (faulty variant: the seed is ignored)
ReseedSkipped(g, seed) == g

\* if random_seed is not None: np.random.seed(random_seed)
Reseed(g, seed) == IF seed # None THEN SeedGenerator(seed) ELSE g

\* the variate the generator g yields k draws from now (k = 0: the next)
Variate(g, k) ==
    DrawValues[((g.seed \div Pow(Len(DrawValues), (g.pos + k) % DrawLen))
                  % Len(DrawValues)) + 1]

\* the generator after n draws
Advance(g, n) == [g EXCEPT !.pos = (g.pos + n) % DrawLen]

\* np.random.normal(mean, vol, size) from generator g, vol given by its
\* square: NaN when vol is NaN, mean when vol is 0
NormalSample(g, mean, variance, size) ==
    [k \in 1..size |->
        IF IsNaN(variance) \/ IsNaN(mean) THEN NaN
        ELSE IF variance = Zero THEN mean
        ELSE Variate(g, k - 1)]

(***************************************************************************)
(* run_monte_carlo_simulation                                              *)
(***************************************************************************)
\* s restricted to its elements in the set keep, in order
RECURSIVE Filter(_, _)
Filter(s, keep) ==
    IF s = <<>> THEN <<>>
    ELSE IF Head(s) \in keep THEN <<Head(s)>> \o Filter(Tail(s), keep)
    ELSE Filter(Tail(s), keep)

Range(s) == {s[i] : i \in 1..Len(s)}

\* portfolio_data['Symbol'].tolist()
SymbolList(portfolio) == [i \in 1..Len(portfolio) |-> portfolio[i].Symbol]

\* portfolio_data.loc[Symbol == symbol, 'Weight'].values[0]: the weight of
\* the first row naming the symbol
FirstWeight(portfolio, symbol) ==
    portfolio[CHOOSE i \in 1..Len(portfolio) :
                 /\ portfolio[i].Symbol = symbol
                 /\ \A k \in 1..(i - 1) : portfolio[k].Symbol # symbol].Weight

\* the columns of returns that the allocation names, in table order
PortfolioColumns(returns, symbols) == Filter(returns.columns, Range(symbols))

\* (faulty variant: reports none)
MissingSymbolsNone(symbols, columns) == <<>>

\* the allocation symbols without a return column, in allocation order
MissingSymbols(symbols, columns) == Filter(symbols, Range(symbols) \ Range(columns))

\* (faulty variant: no check)
HasValidWeightsAlways(weights) == TRUE

\* np.sum(weights) > 0
HasValidWeights(weights) == RGt(RSum(weights), Zero)

\* (faulty variant: weights left as given)
NormalizeSkipped(weights) == weights

\* weights / np.sum(weights)
Normalize(weights) ==
    [i \in 1..Len(weights) |-> RDiv(weights[i], RSum(weights))]

\* Series.mean() of one return column: NaN when there is no row
ColumnMean(returns, column) ==
    LET j == Position(returns.columns, column)
        n == Len(returns.index)
    IN  IF n = 0 THEN NaN
        ELSE RDiv(RSum([k \in 1..n |-> returns.values[k][j]]), R(n, 1))

\* np.sum(Series): pandas' sum, which skips NaN entries
SumSkipNaN(s) ==
    RSum([i \in 1..Len(s) |-> IF IsNaN(s[i]) THEN Zero ELSE s[i]])

\* the square of sqrt(w' Cov w): Cov is the sample covariance (n - 1 in
\* the denominator) of the portfolio's return columns, NaN with fewer than
\* two rows.  w' Cov w is the sample variance of the weighted return series.
PortfolioVariance(returns, columns, weights) ==
    LET n == Len(returns.index)
        series == [k \in 1..n |->
                      RSum([i \in 1..Len(columns) |->
                              RMul(weights[i],
                                   returns.values[k][Position(returns.columns,
                                                              columns[i])])])]
        mean == RDiv(RSum(series), R(n, 1))
    IN  IF n < 2 THEN NaN
        ELSE RDiv(RSum([k \in 1..n |->
                          RMul(RSub(series[k], mean), RSub(series[k], mean))]),
                  R(n - 1, 1))

\* np.cumprod(1 + random_returns) - 1
RECURSIVE CumProd(_, _)
CumProd(s, k) ==
    IF k = 0 THEN One ELSE RMul(CumProd(s, k - 1), RAdd(One, s[k]))

\* (faulty variant: the curve starts with the origin 0)
CumulativeReturnsFromOrigin(random_returns) ==
    [k \in 1..(Len(random_returns) + 1) |->
        RSub(CumProd(random_returns, k - 1), One)]

CumulativeReturns(random_returns) ==
    [k \in 1..Len(random_returns) |-> RSub(CumProd(random_returns, k), One)]

\* Python's max(a, b): b only when b > a
PyMax(a, b) == IF RGt(b, a) THEN b ELSE a

\* (faulty variant: the peak is never raised)
RECURSIVE DrawdownScanFixedPeak(_, _, _, _)
DrawdownScanFixedPeak(path, k, peak, max_drawdown) ==
    IF k > Len(path) THEN max_drawdown
    ELSE LET drawdown == RDiv(RSub(peak, path[k]), RAdd(One, peak))
         IN  DrawdownScanFixedPeak(path, k + 1, peak, PyMax(max_drawdown, drawdown))

RECURSIVE DrawdownScan(_, _, _, _)
\* the scan of one path from position k on, with the peak and the maximum
\* drawdown so far
DrawdownScan(path, k, peak, max_drawdown) ==
    IF k > Len(path) THEN max_drawdown
    ELSE LET peak1 == IF RGt(path[k], peak) THEN path[k] ELSE peak
             drawdown == RDiv(RSub(peak1, path[k]), RAdd(One, peak1))
         IN  DrawdownScan(path, k + 1, peak1, PyMax(max_drawdown, drawdown))

RECURSIVE Insert(_, _)
Insert(sorted, x) ==
    IF sorted = <<>> THEN <<x>>
    ELSE IF RLe(x, Head(sorted)) THEN <<x>> \o sorted
    ELSE <<Head(sorted)>> \o Insert(Tail(sorted), x)

RECURSIVE Sorted(_)
Sorted(s) == IF s = <<>> THEN <<>> ELSE Insert(Sorted(Tail(s)), Head(s))

\* np.percentile(values, q), values not empty: linear interpolation between
\* the order statistics around position (n - 1) * q / 100; NaN when a value
\* is NaN
PercentileOf(values, q) ==
    LET n == Len(values)
        v == Sorted(values)
        lo == ((n - 1) * q) \div 100
        frac == R((n - 1) * q - 100 * lo, 100)
    IN  IF \E i \in 1..n : IsNaN(values[i]) THEN NaN
        ELSE IF lo + 1 >= n THEN v[n]
        ELSE RAdd(v[lo + 1], RMul(frac, RSub(v[lo + 2], v[lo + 1])))

PercentileLevels == <<5, 25, 50, 75, 95>>

\* np.percentile(simulations, q, axis=0) of the num x horizon array
PercentileCurve(simulations, horizon, q) ==
    [t \in 1..horizon |->
        PercentileOf([i \in 1..Len(simulations) |-> simulations[i][t]], q)]

NoEnsemble ==
    [simulations |-> <<>>, final_returns |-> <<>>, max_drawdowns |-> <<>>,
     percentiles |-> <<>>, time_horizon |-> 0, mean_return |-> NaN,
     variance |-> NaN, weights |-> <<>>, assets |-> <<>>]

Warning(names) ==
    [text |-> "Warning: No historical data found for: ", names |-> names]

\* The whole function.  g is the global generator at the call; empty_pct is
\* what np.percentile does for an empty array ("nan" or "IndexError": it
\* depends on the numpy release).  The result: [rng, stdout, raised, value].
run_monte_carlo_simulation(hist, portfolio, num, horizon, seed, g, out, empty_pct) ==
    LET g0 == Reseed(g, seed)
        returns == dropna(pct_change(hist))
        symbols == SymbolList(portfolio)
        columns == PortfolioColumns(returns, symbols)
        missing_symbols == MissingSymbols(symbols, columns)
        out1 == IF missing_symbols # <<>>
                THEN Append(out, Warning(missing_symbols)) ELSE out
        weights0 == [i \in 1..Len(columns) |-> FirstWeight(portfolio, columns[i])]
        weights == Normalize(weights0)
        mean_daily_return ==
            SumSkipNaN([i \in 1..Len(columns) |->
                          RMul(ColumnMean(returns, columns[i]), weights[i])])
        variance == PortfolioVariance(returns, columns, weights)
        paths == [i \in 1..num |->
                    CumulativeReturns(
                        NormalSample(Advance(g0, (i - 1) * horizon),
                                     mean_daily_return, variance, horizon))]
        g1 == Advance(g0, num * horizon)
        Fail(gen, exc) ==
            [rng |-> gen, stdout |-> out1, raised |-> exc, value |-> NoEnsemble]
    IN  IF ~HasValidWeights(weights0)
        THEN Fail(g0, "ValueError: No valid weights could be calculated")
        ELSE IF num > 0 /\ horizon = 0
        THEN \* cumulative_returns[-1] of an empty path
             Fail(g0, "IndexError")
        ELSE IF num = 0 /\ empty_pct = "IndexError"
        THEN Fail(g0, "IndexError")
        ELSE [rng |-> g1, stdout |-> out1, raised |-> "",
              value |->
                [simulations |-> paths,
                 final_returns |-> [i \in 1..num |-> paths[i][horizon]],
                 max_drawdowns |->
                    [i \in 1..num |-> RNeg(DrawdownScan(paths[i], 1, Zero, Zero))],
                 percentiles |->
                    [q \in Range(PercentileLevels) |->
                        IF num = 0 THEN NaN
                        ELSE PercentileCurve(paths, horizon, q)],
                 time_horizon |-> horizon,
                 mean_return |-> mean_daily_return,
                 variance |-> variance,
                 weights |-> weights,
                 assets |-> columns]]

(***************************************************************************)
(* The price tables of the model: up to MaxRows dates 1, 2, ..., a column  *)
(* list, and per column either a price per date or no data at all.         *)
(***************************************************************************)
PriceSet == {100, 105}

ColumnLists ==
    {<<>>, <<"JPM">>, <<"BBCA">>, <<"JPM", "AAPL">>, <<"AAPL", "JPM">>}

MissingSeries(n) == [i \in 1..n |-> NaN]

\* the series a column can hold over n dates
ColumnSeries(n) ==
    {MissingSeries(n)} \cup {[i \in 1..n |-> R(s[i], 1)] : s \in [1..n -> PriceSet]}

\* a flat series and one that alternates 100, 105, 100, ...
SteadySeries(n) ==
    {MissingSeries(n), [i \in 1..n |-> R(100, 1)],
     [i \in 1..n |-> R(100 + 5 * ((i + 1) % 2), 1)]}

\* the tables whose columns over n dates hold a series of series[n]
TablesOf(series) ==
    UNION {
        {DataFrame([i \in 1..n |-> i], cols,
                   [i \in 1..n |-> [j \in 1..Len(cols) |-> ser[j][i]]]) :
            ser \in [1..Len(cols) -> series[n]]} :
        n \in 0..MaxRows, cols \in ColumnLists}

PriceTables == TablesOf([n \in 0..MaxRows |-> ColumnSeries(n)])

SteadyTables == TablesOf([n \in 0..MaxRows |-> SteadySeries(n)])

(***************************************************************************)
(* The allocations of the model: a symbol list and a weight per row.       *)
(***************************************************************************)
SymbolLists ==
    {<<>>, <<"JPM">>, <<"XOM">>, <<"JPM", "AAPL">>, <<"AAPL", "JPM">>,
     <<"JPM", "JPM">>, <<"JPM", "XOM">>}

WeightSet == {Zero, R(1, 4), R(1, 2)}

Portfolios ==
    UNION {
        {[i \in 1..Len(syms) |-> [Symbol |-> syms[i], Weight |-> w[i]]] :
            w \in [1..Len(syms) -> WeightSet]} :
        syms \in SymbolLists}

MaxSims == 2
MaxHorizon == 2

(***************************************************************************)
(* fetch_historical_data (src/data_processor.py).  The download            *)
(* (yf.download) is the environment: it raises, or returns data with or    *)
(* without close prices.  Symbol names are strings of the code; the model  *)
(* tabulates the three string operations on the names it uses.             *)
(***************************************************************************)
\* indonesian_stocks, restricted to the instruments of the model
IndonesianStocks == {"BBCA"}

\* f"{symbol}.JK"
WithJK == [symbol \in {"BBCA"} |-> "BBCA.JK"]

\* symbol.endswith('.JK') and symbol[:-3]
WithoutJK == [symbol \in {"BBCA.JK"} |-> "BBCA"]

\* the name a symbol is downloaded under
ProcessedSymbol(symbol) ==
    IF symbol \in IndonesianStocks THEN WithJK[symbol] ELSE symbol

\* symbol_mapping[processed_symbol]: the three branches of the loop store
\* the bare name for a ".JK" name and the name itself otherwise
SymbolMapping(processed_symbol) ==
    IF processed_symbol \in DOMAIN WithoutJK
    THEN WithoutJK[processed_symbol]
    ELSE processed_symbol

\* prices.rename(columns=symbol_mapping)
RenameColumns(df, processed_symbols) ==
    DataFrame(df.index,
              [j \in 1..Len(df.columns) |->
                  IF df.columns[j] \in Range(processed_symbols)
                  THEN SymbolMapping(df.columns[j])
                  ELSE df.columns[j]],
              df.values)

\* df.empty: no row or no column
Empty(df) == Len(df.index) = 0 \/ Len(df.columns) = 0

\* a table of the given columns, each holding the same series
SameSeriesTable(columns, series) ==
    DataFrame([i \in 1..Len(series) |-> i], columns,
              [i \in 1..Len(series) |-> [j \in 1..Len(columns) |-> series[i]]])

\* the fallback of the one-symbol branch
FallbackSeries == <<R(100, 1), R(101, 1), R(102, 1)>>

\* price_series of the outer handler: start_price, then
\* price_series[-1] * (1 + change) per day
RECURSIVE RandomWalk(_, _, _)
RandomWalk(start_price, change, n) ==
    IF n = 0 THEN <<>>
    ELSE <<start_price>> \o
         RandomWalk(RMul(start_price, RAdd(One, change)), change, n - 1)

\* what the two handlers can draw for MaxRows dates: a walk from a start
\* price in 1000..10000 with changes within 2%, or prices near 1000
RandomSeries ==
    {RandomWalk(R(start, 1), R(change, 100), MaxRows) :
        start \in {1000, 5000}, change \in {-2, 1}}

PrintLine(text, names) == [text |-> text, names |-> names]

\* the warnings for the requested symbols without a column, in order
MissingWarnings(symbols, columns) ==
    LET missing == MissingSymbols(symbols, columns)
    IN  [k \in 1..Len(missing) |->
            PrintLine("Peringatan: Data tidak ditemukan", <<missing[k]>>)]

\* the outer handler (except Exception): random prices under the requested
\* names.  Every column holds the walk `series` (the code draws one walk per
\* column).
FabricatedPrices(symbols, series, g, out) ==
    [value |-> SameSeriesTable(symbols, series),
     raised |-> "",
     rng |-> Advance(g, Len(symbols) * Len(series)),
     stdout |-> Append(out, PrintLine("Error dalam pengambilan data historis",
                                      <<>>))]

\* the extraction of the close prices (the inner try): [prices, drew]
\* data is [has_close, close]: whether the download has a 'Close' entry and
\* the table under it.
ExtractPrices(processed_symbols, data, series) ==
    IF Len(processed_symbols) = 1
    THEN IF data.has_close
         THEN [prices |->
                   DataFrame(data.close.index, processed_symbols,
                             [i \in 1..Len(data.close.index) |->
                                 <<data.close.values[i][1]>>]),
               drew |-> 0]
         ELSE [prices |-> SameSeriesTable(processed_symbols, FallbackSeries),
               drew |-> 0]
    ELSE IF data.has_close
         THEN [prices |-> data.close, drew |-> 0]
         ELSE [prices |-> SameSeriesTable(processed_symbols, series),
               drew |-> Len(processed_symbols) * Len(series)]

\* The whole function.  download is [raised, has_close, close]; series is
\* what a handler draws.  The result: [value, raised, rng, stdout].
fetch_historical_data(symbols, download, series, g, out) ==
    LET processed_symbols ==
            [k \in 1..Len(symbols) |-> ProcessedSymbol(symbols[k])]
        out1 == Append(out, PrintLine("Downloading data for", processed_symbols))
        e == ExtractPrices(processed_symbols, download, series)
        g1 == Advance(g, e.drew)
        out2 == IF e.drew > 0
                THEN Append(out1, PrintLine("Error saat memproses data", <<>>))
                ELSE out1
        renamed_prices == RenameColumns(e.prices, processed_symbols)
    IN  IF download.raised THEN FabricatedPrices(symbols, series, g, out1)
        ELSE IF Empty(e.prices) THEN FabricatedPrices(symbols, series, g1, out2)
        ELSE [value |-> renamed_prices,
              raised |-> "",
              rng |-> g1,
              stdout |-> out2 \o MissingWarnings(symbols, renamed_prices.columns)]

(***************************************************************************)
(* Specification of the scenario transform: one call on any table and any  *)
(* catalog scenario.                                                       *)
(***************************************************************************)
InitScenario ==
    /\ \E t \in PriceTables : heap = <<t>>
    /\ historical_data = 1
    /\ \E name \in ScenarioNames : scenario_params = ECONOMIC_SCENARIOS[name]
    /\ portfolio_data = <<>>
    /\ num_simulations = 0
    /\ time_horizon = 0
    /\ random_seed = None
    /\ rng = SeedGenerator(0)
    /\ stdout = <<>>
    /\ adjusted_data = 0
    /\ simulation_data = NoEnsemble
    /\ raised = ""
    /\ pc = "start"
    /\ calls = <<>>
    /\ session_state = NoSessionState

ApplyEconomicScenario ==
    /\ pc = "start"
    /\ LET r == apply_economic_scenario(heap, historical_data, scenario_params)
       IN  /\ heap' = r.heap
           /\ adjusted_data' = r.ref
           /\ raised' = r.raised
    /\ pc' = "done"
    /\ UNCHANGED <<session_state, historical_data, scenario_params, portfolio_data,
                   num_simulations, time_horizon, random_seed, rng, stdout,
                   simulation_data, calls>>

NextScenario == ApplyEconomicScenario

SpecScenario == InitScenario /\ [][NextScenario]_vars

(***************************************************************************)
(* Specification of the Monte Carlo engine: one call.  The inputs are      *)
(* either any steady table with any allocation (one path of one day), or   *)
(* a one-instrument table with any simulation count, horizon, seed and     *)
(* generator state.                                                        *)
(***************************************************************************)
InitMonteCarlo ==
    /\ \/ /\ \E t \in SteadyTables : heap = <<t>>
          /\ portfolio_data \in Portfolios
          /\ num_simulations = 1
          /\ time_horizon = 1
          /\ random_seed = None
          /\ rng = SeedGenerator(0)
       \/ /\ \E t \in SteadyTables :
                /\ t.columns = <<"JPM">>
                /\ Len(t.index) \in {1, MaxRows}
                /\ ~FullyMissingColumn(t, 1)
                /\ heap = <<t>>
          /\ portfolio_data = <<[Symbol |-> "JPM", Weight |-> R(1, 2)]>>
          /\ num_simulations \in 0..MaxSims
          /\ time_horizon \in 0..MaxHorizon
          /\ \/ random_seed = None /\ \E s \in Seeds : rng = SeedGenerator(s)
             \/ random_seed = 42 /\ rng = SeedGenerator(0)
    /\ historical_data = 1
    /\ scenario_params = ECONOMIC_SCENARIOS["Normal Market"]
    /\ stdout = <<>>
    /\ adjusted_data = 0
    /\ simulation_data = NoEnsemble
    /\ raised = ""
    /\ pc = "start"
    /\ calls = <<>>
    /\ session_state = NoSessionState

\* np.percentile of an empty array (num_simulations <= 0 paths): NaN in
\* some numpy releases, IndexError in others
EmptyPercentileOutcomes(num) ==
    IF num > 0 THEN {"nan"} ELSE {"nan", "IndexError"}

RunMonteCarloSimulation ==
    /\ pc = "start"
    /\ \E empty_pct \in EmptyPercentileOutcomes(num_simulations) :
          LET r == run_monte_carlo_simulation(
                       heap[historical_data], portfolio_data, num_simulations,
                       time_horizon, random_seed, rng, stdout, empty_pct)
          IN  /\ rng' = r.rng
              /\ stdout' = r.stdout
              /\ raised' = r.raised
              /\ simulation_data' = r.value
    /\ pc' = "done"
    /\ UNCHANGED <<session_state, heap, historical_data, scenario_params, portfolio_data,
                   num_simulations, time_horizon, random_seed, adjusted_data,
                   calls>>

NextMonteCarlo == RunMonteCarloSimulation

SpecMonteCarlo == InitMonteCarlo /\ [][NextMonteCarlo]_vars

(***************************************************************************)
(* Risk metrics (src/risk_metrics.py).  The functions read the ensemble    *)
(* run_monte_carlo_simulation returned.  np.std and the skewness take      *)
(* square roots, and the Cornish-Fisher expansion multiplies third powers  *)
(* by fourth moments: such a value is kept as the numbers it is computed   *)
(* from,                                                                   *)
(*     [mean, z, variance]  =  -(mean + z * sqrt(variance)),               *)
(* NaN when one of them is NaN.  Two such values over the same mean and    *)
(* variance are the same number exactly when their z agree or the variance *)
(* is 0.                                                                   *)
(***************************************************************************)
QuantileDraws == 2

NaNRisk == [mean |-> NaN, z |-> NaN, variance |-> NaN]

\* -(mean + z * std), std the root of variance
MinusMeanPlus(mean, z, z_is_nan, variance) ==
    IF IsNaN(mean) \/ IsNaN(variance) \/ z_is_nan THEN NaNRisk
    ELSE [mean |-> mean, z |-> z, variance |-> variance]

\* (faulty variant: the percentile is read from the upper end)
PercentileFromTop(values, q) ==
    LET n == Len(values)
        v == Sorted(values)
        pos == RMul(R(n - 1, 1), RDiv(RSub(R(100, 1), q), R(100, 1)))
        lo == pos[1] \div pos[2]
        frac == RSub(pos, R(lo, 1))
    IN  IF \E i \in 1..n : IsNaN(values[i]) THEN NaN
        ELSE IF lo + 1 >= n THEN v[n]
        ELSE RAdd(v[lo + 1], RMul(frac, RSub(v[lo + 2], v[lo + 1])))

\* np.percentile(values, q) for a real q in [0, 100], values not empty:
\* linear interpolation between the order statistics around position
\* (n - 1) * q / 100
Percentile(values, q) ==
    LET n == Len(values)
        v == Sorted(values)
        pos == RMul(R(n - 1, 1), RDiv(q, R(100, 1)))
        lo == pos[1] \div pos[2]
        frac == RSub(pos, R(lo, 1))
    IN  IF \E i \in 1..n : IsNaN(values[i]) THEN NaN
        ELSE IF lo + 1 >= n THEN v[n]
        ELSE RAdd(v[lo + 1], RMul(frac, RSub(v[lo + 2], v[lo + 1])))

\* np.mean: NaN for an empty array
Mean(values) == RDiv(RSum(values), R(Len(values), 1))

\* the sum of the k-th powers of the deviations from the mean
RECURSIVE RPow(_, _)
RPow(x, k) == IF k = 0 THEN One ELSE RMul(x, RPow(x, k - 1))

Moment(values, k) ==
    RSum([i \in 1..Len(values) |-> RPow(RSub(values[i], Mean(values)), k)])

\* the square of np.std(values): the population variance
Variance(values) == RDiv(Moment(values, 2), R(Len(values), 1))

\* pandas' Series.skew(): n * sqrt(n - 1) / (n - 2) * m3 / m2 ** 1.5 with
\* the sums m2, m3 of the deviations' powers; 0 when m2 is 0 (a constant
\* series), NaN below three values.  Kept as [count, m2, m3], NaN as NaN
\* sums.
Skew(values) ==
    LET n == Len(values)
    IN  IF n < 3 THEN [count |-> n, m2 |-> NaN, m3 |-> NaN]
        ELSE [count |-> n, m2 |-> Moment(values, 2), m3 |-> Moment(values, 3)]

\* pandas' Series.kurtosis(): n * (n + 1) * (n - 1) * m4 / ((n - 2) *
\* (n - 3) * m2 ** 2) - 3 * (n - 1) ** 2 / ((n - 2) * (n - 3)); 0 when m2
\* is 0, NaN below four values.  Kept as [count, m2, m4].
Kurtosis(values) ==
    LET n == Len(values)
    IN  IF n < 4 THEN [count |-> n, m2 |-> NaN, m4 |-> NaN]
        ELSE [count |-> n, m2 |-> Moment(values, 2), m4 |-> Moment(values, 4)]

\* -np.quantile(np.random.normal(0, 1, 10000), 1 - confidence_level): the
\* sample drawn from the global generator g (QuantileDraws variates in the
\* model), its quantile by linear interpolation, negated
ZScore(g, confidence_level) ==
    RNeg(Percentile(NormalSample(g, Zero, One, QuantileDraws),
                    RMul(R(100, 1), RSub(One, confidence_level))))

\* z_cf = z_score + (z_score ** 2 - 1) * skew / 6
\*        + (z_score ** 3 - 3 * z_score) * kurt / 24
\*        - (2 * z_score ** 3 - 5 * z_score) * skew ** 2 / 36,
\* kept as the three numbers it is computed from
CornishFisher(z_score, skew, kurt) ==
    [z_score |-> z_score, skew |-> skew, kurt |-> kurt]

Methods == {"historical", "parametric", "cornish_fisher"}

\* calculate_var.  g is the global generator at the call, empty_pct what
\* np.percentile does for an empty array.  The result: [rng, raised, value].
calculate_var(simulation_results, confidence_level, method, g, empty_pct) ==
    LET final_returns == simulation_results.final_returns
        n == Len(final_returns)
        percentile == RMul(R(100, 1), RSub(One, confidence_level))
        mean == Mean(final_returns)
        variance == Variance(final_returns)
        z_score == ZScore(g, confidence_level)
        skew == Skew(final_returns)
        kurt == Kurtosis(final_returns)
    IN  IF method \notin Methods
        THEN [rng |-> g, raised |-> "ValueError: Invalid method", value |-> NaN]
        ELSE IF method = "historical"
        THEN IF n = 0 /\ empty_pct = "IndexError"
             THEN [rng |-> g, raised |-> "IndexError", value |-> NaN]
             ELSE [rng |-> g, raised |-> "",
                   value |-> IF n = 0 THEN NaN
                             ELSE RNeg(Percentile(final_returns, percentile))]
        ELSE IF method = "parametric"
        THEN [rng |-> Advance(g, QuantileDraws), raised |-> "",
              value |-> MinusMeanPlus(mean, z_score, FALSE, variance)]
        ELSE [rng |-> Advance(g, QuantileDraws), raised |-> "",
              value |-> MinusMeanPlus(mean, CornishFisher(z_score, skew, kurt),
                                      IsNaN(skew.m2) \/ IsNaN(kurt.m2), variance)]

\* values[values < bound]
RECURSIVE Below(_, _)
Below(values, bound) ==
    IF values = <<>> THEN <<>>
    ELSE IF RLt(Head(values), bound)
    THEN <<Head(values)>> \o Below(Tail(values), bound)
    ELSE Below(Tail(values), bound)

\* (faulty variant: every loss is taken)
LossesAll(losses, var) == losses

\* losses[losses > var]
RECURSIVE LossesAbove(_, _)
LossesAbove(losses, var) ==
    IF losses = <<>> THEN <<>>
    ELSE IF RGt(Head(losses), var)
    THEN <<Head(losses)>> \o LossesAbove(Tail(losses), var)
    ELSE LossesAbove(Tail(losses), var)

\* (faulty variant: no fallback for an empty tail)
TailMeanNoFallback(conditional, fallback) == Mean(conditional)

\* the mean of the conditional values, the fallback when there is none
TailMean(conditional, fallback) ==
    IF Len(conditional) = 0 THEN fallback ELSE Mean(conditional)

Negated(values) == [i \in 1..Len(values) |-> RNeg(values[i])]

\* calculate_expected_shortfall.  The result: [raised, value].
calculate_expected_shortfall(simulation_results, confidence_level, empty_pct) ==
    LET final_returns == simulation_results.final_returns
        var_percentile == RMul(R(100, 1), RSub(One, confidence_level))
        var == IF Len(final_returns) = 0 THEN NaN
               ELSE RNeg(Percentile(final_returns, var_percentile))
        losses == Negated(final_returns)
        conditional_losses == LossesAbove(losses, var)
    IN  IF Len(final_returns) = 0 /\ empty_pct = "IndexError"
        THEN [raised |-> "IndexError", value |-> NaN]
        ELSE [raised |-> "", value |-> TailMean(conditional_losses, var)]

\* np.min of a non-empty array: NaN when a value is NaN
Min(values) ==
    IF \E i \in 1..Len(values) : IsNaN(values[i]) THEN NaN
    ELSE Sorted(values)[1]

NoDrawdownMetrics ==
    [avg_drawdown |-> NaN, max_drawdown |-> NaN, drawdown_at_risk |-> NaN,
     conditional_drawdown_at_risk |-> NaN]

\* calculate_drawdown_metrics.  The result: [raised, value].  np.min of an
\* empty array raises ValueError.
calculate_drawdown_metrics(simulation_results, confidence_level) ==
    LET max_drawdowns == simulation_results.max_drawdowns
        avg_drawdown == Mean(Negated(max_drawdowns))
        max_dd == Min(max_drawdowns)
        dar_percentile == RMul(R(100, 1), RSub(One, confidence_level))
        dar == RNeg(Percentile(max_drawdowns, dar_percentile))
        conditional_drawdowns == Negated(Below(max_drawdowns, RNeg(dar)))
        cdar == TailMean(conditional_drawdowns, RNeg(dar))
    IN  IF Len(max_drawdowns) = 0
        THEN [raised |-> "ValueError: zero-size array", value |-> NoDrawdownMetrics]
        ELSE [raised |-> "",
              value |-> [avg_drawdown |-> avg_drawdown,
                         max_drawdown |-> RNeg(max_dd),
                         drawdown_at_risk |-> dar,
                         conditional_drawdown_at_risk |-> cdar]]

\* calculate_conditional_drawdown (src/utils/time_series.py).  The result:
\* [raised, value].
calculate_conditional_drawdown(simulation_results, confidence_level, empty_pct) ==
    LET max_drawdowns == simulation_results.max_drawdowns
        dar_percentile == RMul(R(100, 1), RSub(One, confidence_level))
        dar == IF Len(max_drawdowns) = 0 THEN NaN
               ELSE RNeg(Percentile(max_drawdowns, dar_percentile))
        conditional_drawdowns == Negated(Below(max_drawdowns, RNeg(dar)))
    IN  IF Len(max_drawdowns) = 0 /\ empty_pct = "IndexError"
        THEN [raised |-> "IndexError", value |-> NaN]
        ELSE [raised |-> "", value |-> TailMean(conditional_drawdowns, RNeg(dar))]

\* Risk-adjusted metrics.  annualization_factor = sqrt(252 / time_horizon)
\* is irrational in general, so the model keeps its square (factor2) and
\* leaves the products and quotients unevaluated:
\*   an annualized mean       [mean, factor2]            = mean * sqrt(factor2)
\*   an annualized deviation  [variance, factor2, constant]
\*                                   = sqrt(variance * factor2) + constant
\*   a ratio                  [num, den]                 = num / den
\* The constant carries a denominator that is not a deviation: the floor of
\* the downside deviation and the max drawdown of the Calmar ratio.
DownsideFloor == R(1, 1000000)

Annualized(mean, factor2) == [mean |-> mean, factor2 |-> factor2]

Deviation(variance, factor2) ==
    [variance |-> variance, factor2 |-> factor2, constant |-> Zero]

Constant(c, factor2) == [variance |-> Zero, factor2 |-> factor2, constant |-> c]

\* den > 0; False when den is NaN
Positive(den) == RGt(den.variance, Zero) \/ RGt(den.constant, Zero)

Quotient(num, den) == [num |-> num, den |-> den]

\* the int 0 the code returns in place of a ratio
ZeroRatio == Quotient(Annualized(Zero, One), Constant(One, One))

\* faulty variant: divide whatever the denominator is
QuotientUnguarded(num, den) == Quotient(num, den)

\* num / den if den > 0 else 0
QuotientOrZero(num, den) ==
    IF Positive(den) THEN Quotient(num, den) ELSE ZeroRatio

\* faulty variant: the deviation of all final returns
DownsideDeviationOfAll(final_returns, factor2) ==
    Deviation(Variance(final_returns), factor2)

\* np.std(negative_returns) * annualization_factor
\*     if len(negative_returns) > 0 else 1e-6
DownsideDeviation(final_returns, factor2) ==
    LET negative_returns == Below(final_returns, Zero)
    IN  IF Len(negative_returns) > 0
        THEN Deviation(Variance(negative_returns), factor2)
        ELSE Constant(DownsideFloor, factor2)

NoRiskAdjustedMetrics ==
    [sharpe_ratio |-> ZeroRatio, sortino_ratio |-> ZeroRatio,
     calmar_ratio |-> ZeroRatio,
     annualized_return |-> Annualized(NaN, One),
     annualized_volatility |-> Deviation(NaN, One),
     downside_deviation |-> Deviation(NaN, One)]

\* calculate_risk_adjusted_metrics.  The result: [raised, value].  A
\* time_horizon of 0 raises ZeroDivisionError at 252 / time_horizon; an
\* ensemble of no paths makes calculate_drawdown_metrics raise.
calculate_risk_adjusted_metrics(simulation_results) ==
    LET final_returns == simulation_results.final_returns
        factor2 == R(252, simulation_results.time_horizon)
        mean_return == Annualized(Mean(final_returns), factor2)
        volatility == Deviation(Variance(final_returns), factor2)
        downside_deviation == DownsideDeviation(final_returns, factor2)
        sharpe_ratio == QuotientOrZero(mean_return, volatility)
        sortino_ratio == QuotientOrZero(mean_return, downside_deviation)
        drawdown_metrics ==
            calculate_drawdown_metrics(simulation_results, R(95, 100))
        max_drawdown == Constant(drawdown_metrics.value.max_drawdown, factor2)
        calmar_ratio == QuotientOrZero(mean_return, max_drawdown)
    IN  IF simulation_results.time_horizon = 0
        THEN [raised |-> "ZeroDivisionError", value |-> NoRiskAdjustedMetrics]
        ELSE IF drawdown_metrics.raised # ""
        THEN [raised |-> drawdown_metrics.raised, value |-> NoRiskAdjustedMetrics]
        ELSE [raised |-> "",
              value |-> [sharpe_ratio |-> sharpe_ratio,
                         sortino_ratio |-> sortino_ratio,
                         calmar_ratio |-> calmar_ratio,
                         annualized_return |-> mean_return,
                         annualized_volatility |-> volatility,
                         downside_deviation |-> downside_deviation]]

(***************************************************************************)
(* Specification of the risk metrics: one simulation, then one risk-metric *)
(* call on the ensemble it returned.  The price tables: one whose returns  *)
(* vary, one that grows by 2% a day (every path ends at 0.02 after a day), *)
(* one of two rows (its single return gives no covariance).  Ensembles of  *)
(* more than MaxSims paths are paths of one day.                           *)
(***************************************************************************)
MaxPaths == 4

VaryingTable ==
    DataFrame(<<1, 2, 3>>, <<"JPM">>,
              <<<<R(100, 1)>>, <<R(105, 1)>>, <<R(100, 1)>>>>)

GrowingTable ==
    DataFrame(<<1, 2, 3>>, <<"JPM">>,
              <<<<R(2500, 1)>>, <<R(2550, 1)>>, <<R(2601, 1)>>>>)

TwoRowTable ==
    DataFrame(<<1, 2>>, <<"JPM">>, <<<<R(100, 1)>>, <<R(105, 1)>>>>)

ConfidenceLevels == {R(1, 10), R(1, 2), R(9, 10), R(19, 20), R(99, 100)}

MethodArguments == Methods \cup {"monte_carlo"}

InitRiskMetrics ==
    /\ \/ /\ heap = <<VaryingTable>>
          /\ \/ num_simulations \in 0..MaxSims /\ time_horizon \in 1..MaxHorizon
             \/ num_simulations \in (MaxSims + 1)..MaxPaths /\ time_horizon = 1
          /\ \E s \in Seeds : rng = SeedGenerator(s)
       \/ /\ heap \in {<<GrowingTable>>, <<TwoRowTable>>}
          /\ num_simulations \in 1..MaxSims
          /\ time_horizon = 1
          /\ rng = SeedGenerator(0)
    /\ portfolio_data = <<[Symbol |-> "JPM", Weight |-> R(1, 2)]>>
    /\ random_seed = None
    /\ historical_data = 1
    /\ scenario_params = ECONOMIC_SCENARIOS["Normal Market"]
    /\ stdout = <<>>
    /\ adjusted_data = 0
    /\ simulation_data = NoEnsemble
    /\ raised = ""
    /\ pc = "start"
    /\ calls = <<>>
    /\ session_state = NoSessionState

\* a call and what it returned or raised
Call(op, args, result) ==
    [op |-> op, args |-> args, value |-> result.value, raised |-> result.raised]

VarArgs(c, m) ==
    [simulation_results |-> simulation_data, confidence_level |-> c, method |-> m]

MetricArgs(c) == [simulation_results |-> simulation_data, confidence_level |-> c]

\* np.percentile of an empty array: NaN or IndexError
EmptyOutcomes(values) ==
    IF Len(values) > 0 THEN {"nan"} ELSE {"nan", "IndexError"}

Simulated == pc = "done" /\ raised = ""

\* one calculate_var call on the latest ensemble
VarStep(c, m, empty_pct) ==
    LET r == calculate_var(simulation_data, c, m, rng, empty_pct)
    IN  /\ calls' = Append(calls, Call("calculate_var", VarArgs(c, m), r))
        /\ rng' = r.rng
        /\ UNCHANGED <<session_state, heap, historical_data, scenario_params, portfolio_data,
                       num_simulations, time_horizon, random_seed, stdout,
                       adjusted_data, simulation_data, raised, pc>>

CalculateVar ==
    /\ Simulated
    /\ calls = <<>>
    /\ \E c \in ConfidenceLevels, m \in MethodArguments,
          empty_pct \in EmptyOutcomes(simulation_data.final_returns) :
          VarStep(c, m, empty_pct)

CalculateExpectedShortfall ==
    /\ Simulated
    /\ calls = <<>>
    /\ \E c \in ConfidenceLevels,
          empty_pct \in EmptyOutcomes(simulation_data.final_returns) :
          calls' = Append(calls,
                          Call("calculate_expected_shortfall", MetricArgs(c),
                               calculate_expected_shortfall(simulation_data, c,
                                                            empty_pct)))
    /\ UNCHANGED <<session_state, heap, historical_data, scenario_params, portfolio_data,
                   num_simulations, time_horizon, random_seed, rng, stdout,
                   adjusted_data, simulation_data, raised, pc>>

CalculateDrawdownMetrics ==
    /\ Simulated
    /\ calls = <<>>
    /\ \E c \in ConfidenceLevels :
          calls' = Append(calls,
                          Call("calculate_drawdown_metrics", MetricArgs(c),
                               calculate_drawdown_metrics(simulation_data, c)))
    /\ UNCHANGED <<session_state, heap, historical_data, scenario_params, portfolio_data,
                   num_simulations, time_horizon, random_seed, rng, stdout,
                   adjusted_data, simulation_data, raised, pc>>

CalculateConditionalDrawdown ==
    /\ Simulated
    /\ calls = <<>>
    /\ \E c \in ConfidenceLevels,
          empty_pct \in EmptyOutcomes(simulation_data.max_drawdowns) :
          calls' = Append(calls,
                          Call("calculate_conditional_drawdown", MetricArgs(c),
                               calculate_conditional_drawdown(simulation_data, c,
                                                              empty_pct)))
    /\ UNCHANGED <<session_state, heap, historical_data, scenario_params, portfolio_data,
                   num_simulations, time_horizon, random_seed, rng, stdout,
                   adjusted_data, simulation_data, raised, pc>>

NextRiskMetrics ==
    \/ RunMonteCarloSimulation
    \/ CalculateVar
    \/ CalculateExpectedShortfall
    \/ CalculateDrawdownMetrics
    \/ CalculateConditionalDrawdown

SpecRiskMetrics == InitRiskMetrics /\ [][NextRiskMetrics]_vars

(***************************************************************************)
(* Specification of a session: up to MaxCalls calls in one process, each a *)
(* simulation (seeded or not, of one to MaxSims paths) or a calculate_var  *)
(* call on the latest ensemble.  The calls share numpy's global generator, *)
(* which some earlier activity of the process left in one of the           *)
(* SessionStreams.                                                         *)
(***************************************************************************)
MaxCalls == 3

SessionSeeds == {None, 42}

SessionStreams == {5, 21}

InitSession ==
    /\ heap = <<VaryingTable>>
    /\ historical_data = 1
    /\ portfolio_data = <<[Symbol |-> "JPM", Weight |-> R(1, 2)]>>
    /\ scenario_params = ECONOMIC_SCENARIOS["Normal Market"]
    /\ num_simulations = 0
    /\ time_horizon = 0
    /\ random_seed = None
    /\ \E s \in SessionStreams : rng = SeedGenerator(s)
    /\ stdout = <<>>
    /\ adjusted_data = 0
    /\ simulation_data = NoEnsemble
    /\ raised = ""
    /\ pc = "session"
    /\ calls = <<>>
    /\ session_state = NoSessionState

SimulationArgs(num, horizon, seed) ==
    [historical_data |-> heap[historical_data], portfolio_data |-> portfolio_data,
     num_simulations |-> num, time_horizon |-> horizon, random_seed |-> seed]

SessionSimulation ==
    /\ pc = "session"
    /\ Len(calls) < MaxCalls
    /\ \E num \in 1..MaxSims, seed \in SessionSeeds :
          LET r == run_monte_carlo_simulation(
                       heap[historical_data], portfolio_data, num, MaxHorizon,
                       seed, rng, stdout, "nan")
          IN  /\ calls' = Append(calls,
                                 Call("run_monte_carlo_simulation",
                                      SimulationArgs(num, MaxHorizon, seed), r))
              /\ rng' = r.rng
              /\ stdout' = r.stdout
              /\ raised' = r.raised
              /\ simulation_data' = r.value
              /\ num_simulations' = num
              /\ time_horizon' = MaxHorizon
              /\ random_seed' = seed
    /\ UNCHANGED <<session_state, heap, historical_data, scenario_params, portfolio_data,
                   adjusted_data, pc>>

SessionVar ==
    /\ pc = "session"
    /\ Len(calls) < MaxCalls
    /\ simulation_data # NoEnsemble
    /\ \E m \in Methods : VarStep(R(95, 100), m, "nan")

NextSession == SessionSimulation \/ SessionVar

SpecSession == InitSession /\ [][NextSession]_vars

(***************************************************************************)
(* Specification of the risk-adjusted metrics: one simulation, then one    *)
(* calculate_risk_adjusted_metrics call on its ensemble.                   *)
(***************************************************************************)
ResultsArgs == [simulation_results |-> simulation_data]

CalculateRiskAdjustedMetrics ==
    /\ Simulated
    /\ calls = <<>>
    /\ calls' = Append(calls,
                       Call("calculate_risk_adjusted_metrics", ResultsArgs,
                            calculate_risk_adjusted_metrics(simulation_data)))
    /\ UNCHANGED <<session_state, heap, historical_data, scenario_params, portfolio_data,
                   num_simulations, time_horizon, random_seed, rng, stdout,
                   adjusted_data, simulation_data, raised, pc>>

NextRiskAdjusted == RunMonteCarloSimulation \/ CalculateRiskAdjustedMetrics

SpecRiskAdjusted == InitRiskMetrics /\ [][NextRiskAdjusted]_vars

(***************************************************************************)
(* Specification of the catalog: up to MaxCalls calls, in any order, of    *)
(* generate_custom_scenario, get_scenario_description and                  *)
(* apply_economic_scenario (on the catalog entry of a name, as the app     *)
(* passes it).  The heap holds the catalog's objects and one price table.  *)
(***************************************************************************)
\* names given to the calls; "Stagflation" is not in the catalog
NameArguments == {"Market Crash", "Recession", "Stagflation"}

Item(key, value, is_dict) == [key |-> key, value |-> value, is_dict |-> is_dict]

\* custom_adjustments given to generate_custom_scenario: none, a direct
\* parameter, an impact_factor dict, both (with a sector the tables do not
\* have), and a key the scenarios do not have
AdjustmentArguments ==
    {<<>>,
     <<Item("returns_adjustment", R(-1, 2), FALSE)>>,
     <<Item("impact_factor", [Financial |-> R(-1, 2)], TRUE)>>,
     <<Item("volatility_adjustment", R(3, 1), FALSE),
       Item("impact_factor", [Financial |-> R(-1, 10), Crypto |-> R(-9, 10)],
            TRUE)>>,
     <<Item("liquidity_adjustment", R(1, 1), FALSE)>>}

NoValue == [none |-> TRUE]

InitCatalog ==
    /\ heap = Append(CatalogObjects, VaryingTable)
    /\ historical_data = Len(CatalogObjects) + 1
    /\ portfolio_data = <<>>
    /\ scenario_params = ECONOMIC_SCENARIOS["Normal Market"]
    /\ num_simulations = 0
    /\ time_horizon = 0
    /\ random_seed = None
    /\ rng = SeedGenerator(0)
    /\ stdout = <<>>
    /\ adjusted_data = 0
    /\ simulation_data = NoEnsemble
    /\ raised = ""
    /\ pc = "catalog"
    /\ calls = <<>>
    /\ session_state = NoSessionState

GenerateCustomScenario ==
    /\ pc = "catalog"
    /\ Len(calls) < MaxCalls
    /\ \E base_scenario \in NameArguments,
          custom_adjustments \in AdjustmentArguments :
          LET r == generate_custom_scenario(heap, base_scenario,
                                            custom_adjustments)
          IN  /\ heap' = r.heap
              /\ raised' = r.raised
              /\ calls' = Append(calls,
                     [op |-> "generate_custom_scenario",
                      args |-> [base_scenario |-> base_scenario,
                                custom_adjustments |-> custom_adjustments],
                      value |-> IF r.raised = "" THEN Scenario(r.heap, r.ref)
                                ELSE NoValue,
                      raised |-> r.raised])
    /\ UNCHANGED <<session_state, historical_data, scenario_params, portfolio_data,
                   num_simulations, time_horizon, random_seed, rng, stdout,
                   adjusted_data, simulation_data, pc>>

GetScenarioDescription ==
    /\ pc = "catalog"
    /\ Len(calls) < MaxCalls
    /\ \E scenario_name \in NameArguments :
          /\ calls' = Append(calls,
                 [op |-> "get_scenario_description",
                  args |-> [scenario_name |-> scenario_name],
                  value |-> get_scenario_description(heap, scenario_name),
                  raised |-> ""])
    /\ raised' = ""
    /\ UNCHANGED <<session_state, heap, historical_data, scenario_params, portfolio_data,
                   num_simulations, time_horizon, random_seed, rng, stdout,
                   adjusted_data, simulation_data, pc>>

\* apply_economic_scenario(historical_data, ECONOMIC_SCENARIOS[name])
ApplyCatalogScenario ==
    /\ pc = "catalog"
    /\ Len(calls) < MaxCalls
    /\ \E name \in NameArguments \cap ScenarioNames :
          LET r == apply_economic_scenario(heap, historical_data,
                                           CatalogEntry(heap, name))
          IN  /\ heap' = r.heap
              /\ adjusted_data' = r.ref
              /\ raised' = r.raised
              /\ calls' = Append(calls,
                     [op |-> "apply_economic_scenario",
                      args |-> [historical_data |-> heap[historical_data],
                                scenario_name |-> name],
                      value |-> IF r.raised = "" THEN r.heap[r.ref] ELSE NoValue,
                      raised |-> r.raised])
    /\ UNCHANGED <<session_state, historical_data, scenario_params, portfolio_data,
                   num_simulations, time_horizon, random_seed, rng, stdout,
                   simulation_data, pc>>

NextCatalog ==
    \/ GenerateCustomScenario
    \/ GetScenarioDescription
    \/ ApplyCatalogScenario

SpecCatalog == InitCatalog /\ [][NextCatalog]_vars

(***************************************************************************)
(* Specification of the data pipeline: fetch_historical_data for the       *)
(* symbols of an allocation, then the scenario transform or the simulation *)
(* on the table it returned, as the app's run handler chains them.         *)
(***************************************************************************)
NoTable == DataFrame(<<>>, <<>>, <<>>)

\* the close prices a successful download holds for each ticker
DownloadedSeries == <<R(100, 1), R(105, 1), R(100, 1)>>

\* the outcomes of yf.download for the processed symbols: it raises; it
\* returns a frame without close prices; it returns close prices for all
\* tickers, for the first one only, or for no date
Downloads(processed_symbols) ==
    {[raised |-> TRUE, has_close |-> FALSE, close |-> NoTable],
     [raised |-> FALSE, has_close |-> FALSE, close |-> NoTable],
     [raised |-> FALSE, has_close |-> TRUE,
      close |-> SameSeriesTable(processed_symbols, DownloadedSeries)],
     [raised |-> FALSE, has_close |-> TRUE,
      close |-> SameSeriesTable(SubSeq(processed_symbols, 1, 1), DownloadedSeries)],
     [raised |-> FALSE, has_close |-> TRUE,
      close |-> SameSeriesTable(processed_symbols, <<>>)]}

\* the symbol lists requested: bare and ".JK" names of an Indonesian stock,
\* alone and next to a US stock
RequestedSymbols ==
    {<<"BBCA">>, <<"BBCA.JK">>, <<"JPM">>, <<"JPM", "BBCA">>,
     <<"BBCA.JK", "JPM">>, <<"AAPL", "JPM">>}

InitPipeline ==
    /\ heap = <<>>
    /\ historical_data = 0
    /\ \E symbols \in RequestedSymbols :
          portfolio_data =
              [i \in 1..Len(symbols) |-> [Symbol |-> symbols[i], Weight |-> R(1, 2)]]
    /\ \E name \in {"Normal Market", "Market Crash"} :
          scenario_params = ECONOMIC_SCENARIOS[name]
    /\ num_simulations = 1
    /\ time_horizon = 1
    /\ random_seed = None
    /\ rng = SeedGenerator(0)
    /\ stdout = <<>>
    /\ adjusted_data = 0
    /\ simulation_data = NoEnsemble
    /\ raised = ""
    /\ pc = "fetch"
    /\ calls = <<>>
    /\ session_state = NoSessionState

FetchHistoricalData ==
    /\ pc = "fetch"
    /\ LET symbols == SymbolList(portfolio_data)
           processed_symbols ==
               [k \in 1..Len(symbols) |-> ProcessedSymbol(symbols[k])]
       IN  \E download \in Downloads(processed_symbols), series \in RandomSeries :
              LET r == fetch_historical_data(symbols, download, series, rng, stdout)
              IN  /\ heap' = <<r.value>>
                  /\ historical_data' = 1
                  /\ rng' = r.rng
                  /\ stdout' = r.stdout
                  /\ raised' = r.raised
                  /\ calls' = Append(calls,
                         [op |-> "fetch_historical_data",
                          args |-> [symbols |-> symbols, download |-> download],
                          value |-> r.value,
                          raised |-> r.raised])
                  /\ pc' = IF r.raised = "" THEN "start" ELSE "done"
    /\ UNCHANGED <<session_state, scenario_params, portfolio_data, num_simulations,
                   time_horizon, random_seed, adjusted_data, simulation_data>>

NextPipeline ==
    \/ FetchHistoricalData
    \/ ApplyEconomicScenario
    \/ RunMonteCarloSimulation

SpecPipeline == InitPipeline /\ [][NextPipeline]_vars

(***************************************************************************)
(* The app (src/app.py).  Streamlit reruns the script for each user        *)
(* action, so a handler is one step.  A portfolio is its rows              *)
(* [Symbol, Weight]; the Value column only feeds the Percentage display.   *)
(***************************************************************************)
\* rows sorted by Weight, descending; equal weights keep their order
RECURSIVE InsertRow(_, _)
InsertRow(sorted, row) ==
    IF sorted = <<>> THEN <<row>>
    ELSE IF RGt(row.Weight, Head(sorted).Weight) THEN <<row>> \o sorted
    ELSE <<Head(sorted)>> \o InsertRow(Tail(sorted), row)

RECURSIVE SortByWeight(_)
SortByWeight(rows) ==
    IF rows = <<>> THEN <<>>
    ELSE InsertRow(SortByWeight(SubSeq(rows, 1, Len(rows) - 1)), rows[Len(rows)])

\* process_portfolio_data: weights divided by their total when it is not
\* within 0.01 of 1, rows sorted by weight
process_portfolio_data(data) ==
    LET total_weight == RSum([i \in 1..Len(data) |-> data[i].Weight])
        off == RSub(total_weight, One)
        normalize == RGt(off, R(1, 100)) \/ RGt(RNeg(off), R(1, 100))
    IN  SortByWeight(
            [i \in 1..Len(data) |->
                [Symbol |-> data[i].Symbol,
                 Weight |-> IF normalize THEN RDiv(data[i].Weight, total_weight)
                            ELSE data[i].Weight]])

\* load_sample_data: the sample's Indonesian stocks (weights summing to 1),
\* represented by the one the model has
load_sample_data ==
    process_portfolio_data(<<[Symbol |-> "BBCA", Weight |-> One]>>)

\* what a name holds when the call assigned to it raised: nothing
Unbound == [unbound |-> TRUE]

\* run_arima_forecast.  The model fit is the environment (statsmodels):
\* fit is "arima" when it succeeds, "simple" when it fails and
\* run_simple_forecast takes over (drawing its z-score from np.random),
\* "raises" when the forecast ends with an exception.  The forecast values
\* are not modelled.  The result: [value, raised, rng].
run_arima_forecast(historical_data_df, portfolio, forecast_periods, fit, g) ==
    LET symbols == SymbolList(portfolio)
        available_symbols == Filter(symbols, Range(historical_data_df.columns))
    IN  IF available_symbols = <<>>
        THEN [value |-> Unbound, rng |-> g,
              raised |-> "ValueError: None of the portfolio assets have historical data"]
        ELSE IF fit = "raises"
        THEN [value |-> Unbound, raised |-> "Exception", rng |-> g]
        ELSE IF fit = "simple"
        THEN [value |-> [assets |-> available_symbols,
                         forecast_periods |-> forecast_periods,
                         model_summary |-> "Simple exponential forecast (ARIMA failed)"],
              raised |-> "", rng |-> Advance(g, QuantileDraws)]
        ELSE [value |-> [assets |-> available_symbols,
                         forecast_periods |-> forecast_periods,
                         model_summary |-> "ARIMA"],
              raised |-> "", rng |-> g]

\* (faulty variant: the forecast's result whatever happened)
ForecastDataUnguarded(forecast) == forecast.value

\* try: forecast_data = run_arima_forecast(...) except: forecast_data = None
ForecastData(forecast) ==
    IF forecast.raised # "" THEN PyNone ELSE forecast.value

\* (faulty variant: the risk metrics are not stored)
StoreWithoutRiskMetrics(session, simulation_data_v, risk_metrics, forecast_data) ==
    [session EXCEPT !.simulation_results = simulation_data_v,
                    !.forecast_data = forecast_data]

\* st.session_state.simulation_results = simulation_data, and so on
Store(session, simulation_data_v, risk_metrics, forecast_data) ==
    [session EXCEPT !.simulation_results = simulation_data_v,
                    !.risk_metrics = risk_metrics,
                    !.forecast_data = forecast_data]

StepOrder == <<"fetch", "scenario", "monte_carlo", "risk_metrics", "forecast">>

Step(name, exc) == [step |-> name, raised |-> exc]

\* The handler's frame at its start: the session, the widgets' values, the
\* environment of this run (download, series, fit), the generator and
\* stdout, the handler's local names (none assigned yet), the steps entered
\* so far with the exception each ended with, and the exception in flight.
Frame(session, selected_scenario, num, horizon, download, series, fit, g, out) ==
    [session |-> session, selected_scenario |-> selected_scenario,
     num_simulations |-> num, time_horizon |-> horizon,
     download |-> download, series |-> series, fit |-> fit,
     rng |-> g, stdout |-> out,
     portfolio_df |-> session.portfolio_data,
     historical_data |-> Unbound, adjusted_historical_data |-> Unbound,
     simulation_data |-> Unbound,
     var_95 |-> Unbound, var_99 |-> Unbound, es_95 |-> Unbound, es_99 |-> Unbound,
     forecast_data |-> Unbound,
     steps |-> <<>>, raised |-> ""]

\* a call made in step name ended with exc ("": it returned)
Called(r, name, exc) ==
    [r EXCEPT !.raised = exc,
              !.steps = IF @ # <<>> /\ @[Len(@)].step = name
                        THEN [@ EXCEPT ![Len(@)].raised = exc]
                        ELSE Append(@, Step(name, exc))]

\* the step's call returned: what it assigns, and the generator and stdout
\* it leaves
AfterFetch(r, f) ==
    [Called(r, "fetch", f.raised) EXCEPT !.historical_data = f.value,
                                         !.rng = f.rng,
                                         !.stdout = f.stdout]

AfterScenario(r, a) ==
    [Called(r, "scenario", a.raised) EXCEPT
        !.adjusted_historical_data = IF a.ref = 0 THEN Unbound ELSE a.heap[a.ref]]

AfterMonteCarlo(r, m) ==
    [Called(r, "monte_carlo", m.raised) EXCEPT !.simulation_data = m.value,
                                               !.rng = m.rng,
                                               !.stdout = m.stdout]

AfterVar(r, name, v) ==
    [Called(r, "risk_metrics", v.raised) EXCEPT ![name] = v.value, !.rng = v.rng]

AfterEs(r, name, v) ==
    [Called(r, "risk_metrics", v.raised) EXCEPT ![name] = v.value]

AfterForecast(r, forecast) ==
    [r EXCEPT !.forecast_data = ForecastData(forecast),
              !.rng = forecast.rng,
              !.steps = Append(@, Step("forecast", forecast.raised))]

\* historical_data = fetch_historical_data(symbols, start_date, end_date)
FetchStep(r) ==
    AfterFetch(r, fetch_historical_data(SymbolList(r.portfolio_df), r.download,
                                     r.series, r.rng, r.stdout))

\* the copy handed to apply_economic_scenario
HistoricalDataCopy(r) == DataFrameCopy(<<r.historical_data>>, 1).heap

\* adjusted_historical_data = apply_economic_scenario(historical_data.copy(), ...)
ScenarioStep(r) ==
    IF r.raised # "" THEN r
    ELSE AfterScenario(r, apply_economic_scenario(
                         HistoricalDataCopy(r), 2,
                         ECONOMIC_SCENARIOS[r.selected_scenario]))

\* simulation_data = run_monte_carlo_simulation(...)
MonteCarloStep(r) ==
    IF r.raised # "" THEN r
    ELSE AfterMonteCarlo(r, run_monte_carlo_simulation(
                          r.adjusted_historical_data, r.portfolio_df,
                          r.num_simulations, r.time_horizon, None, r.rng,
                          r.stdout, "nan"))

\* var_95 = calculate_var(simulation_data, confidence_level=0.95) and
\* var_99, by the default method
VarCall(r, name, confidence_level) ==
    IF r.raised # "" THEN r
    ELSE AfterVar(r, name, calculate_var(r.simulation_data, confidence_level,
                                         "historical", r.rng, "nan"))

\* es_95 = calculate_expected_shortfall(simulation_data, confidence_level=0.95)
\* and es_99
EsCall(r, name, confidence_level) ==
    IF r.raised # "" THEN r
    ELSE AfterEs(r, name, calculate_expected_shortfall(
                             r.simulation_data, confidence_level, "nan"))

RiskMetricsStep(r) ==
    EsCall(EsCall(VarCall(VarCall(r, "var_95", R(95, 100)),
                          "var_99", R(99, 100)),
                  "es_95", R(95, 100)),
           "es_99", R(99, 100))

\* the forecast in its own try: its exception is not in flight afterwards
ForecastStep(r) ==
    IF r.raised # "" THEN r
    ELSE AfterForecast(r, run_arima_forecast(r.adjusted_historical_data,
                                        r.portfolio_df, r.time_horizon,
                                        r.fit, r.rng))

\* the three stores that end the try
StoreStep(r) ==
    IF r.raised # "" THEN r
    ELSE [r EXCEPT !.session =
             Store(@, r.simulation_data,
                   [VaR_95 |-> r.var_95, VaR_99 |-> r.var_99,
                    ES_95 |-> r.es_95, ES_99 |-> r.es_99],
                   r.forecast_data)]

\* what the handler leaves
Outcome(r) ==
    [session |-> r.session, rng |-> r.rng, stdout |-> r.stdout,
     steps |-> r.steps, raised |-> r.raised]

\* The run-analysis handler.  The result: [session, rng, stdout, steps,
\* raised]: the session state after it, the steps it entered in order with
\* the exception each ended with, and the exception its outer handler
\* caught ("": none).
run_analysis(session, selected_scenario, num, horizon, download, series, fit, g, out) ==
    Outcome(StoreStep(ForecastStep(RiskMetricsStep(MonteCarloStep(ScenarioStep(
        FetchStep(Frame(session, selected_scenario, num, horizon, download,
                        series, fit, g, out))))))))

(***************************************************************************)
(* Specification of the app: the user loads the sample, builds a           *)
(* portfolio, clears the build list and runs the analysis, in any order;   *)
(* up to MaxRuns runs.  A run is scaled down to one simulation over one    *)
(* day (the sliders offer 100 to 10000 simulations and 1 to 252 days); the *)
(* handlers never look at either number.  The build list is kept free of   *)
(* repeated symbols to keep it finite.                                     *)
(***************************************************************************)
MaxRuns == 2

\* what the user adds to the build list
BuildSymbols == {"BBCA.JK"}

\* what yf.download does in a run: it raises, or returns closes for all
AppDownloads(processed_symbols) ==
    {d \in Downloads(processed_symbols) :
        d.raised \/ d.close = SameSeriesTable(processed_symbols, DownloadedSeries)}

AppSeries == RandomWalk(R(1000, 1), R(1, 100), MaxRows)

Fits == {"arima", "simple", "raises"}

InitApp ==
    /\ heap = <<>>
    /\ historical_data = 0
    /\ portfolio_data = <<>>
    /\ scenario_params = ECONOMIC_SCENARIOS["Normal Market"]
    /\ num_simulations = 1
    /\ time_horizon = 1
    /\ random_seed = None
    /\ rng = SeedGenerator(5)
    /\ stdout = <<>>
    /\ adjusted_data = 0
    /\ simulation_data = NoEnsemble
    /\ raised = ""
    /\ pc = "app"
    /\ calls = <<>>
    /\ session_state = NoSessionState

AppFrame ==
    UNCHANGED <<heap, historical_data, scenario_params, portfolio_data,
                num_simulations, time_horizon, random_seed, adjusted_data,
                simulation_data, pc>>

\* "Muat Portofolio Sampel"
LoadSample ==
    /\ pc = "app"
    /\ session_state' = [session_state EXCEPT !.portfolio_data = load_sample_data]
    /\ AppFrame
    /\ UNCHANGED <<rng, stdout, raised, calls>>

\* "Tambahkan Saham": one more stock in the build list
AddStock ==
    /\ pc = "app"
    /\ \E new_symbol \in BuildSymbols :
          /\ new_symbol \notin Range(SymbolList(session_state.build_portfolio))
          /\ session_state' =
                 [session_state EXCEPT !.build_portfolio =
                     Append(@, [Symbol |-> new_symbol, Weight |-> R(1, 2)])]
    /\ AppFrame
    /\ UNCHANGED <<rng, stdout, raised, calls>>

\* "Buat Portofolio", shown when the build list is not empty
CreatePortfolio ==
    /\ pc = "app"
    /\ session_state.build_portfolio # <<>>
    /\ session_state' =
           [session_state EXCEPT !.portfolio_data =
               process_portfolio_data(session_state.build_portfolio)]
    /\ AppFrame
    /\ UNCHANGED <<rng, stdout, raised, calls>>

\* "Hapus Semua"
ClearBuild ==
    /\ pc = "app"
    /\ session_state.build_portfolio # <<>>
    /\ session_state' = [session_state EXCEPT !.build_portfolio = <<>>]
    /\ AppFrame
    /\ UNCHANGED <<rng, stdout, raised, calls>>

\* the symbols the run downloads
ProcessedSymbols(portfolio) ==
    [k \in 1..Len(portfolio) |-> ProcessedSymbol(portfolio[k].Symbol)]

\* the state a run leaves, and its entry in the log
Ran(download, fit, r) ==
    /\ session_state' = r.session
    /\ rng' = r.rng
    /\ stdout' = r.stdout
    /\ raised' = r.raised
    /\ calls' = Append(calls,
           [op |-> "run_analysis",
            args |-> [portfolio_data |-> session_state.portfolio_data,
                      download |-> download, fit |-> fit],
            value |-> r.steps,
            raised |-> r.raised])

\* "Jalankan Analisis Stress Test", shown when a portfolio is held
RunAnalysis ==
    /\ pc = "app"
    /\ session_state.portfolio_data # <<>>
    /\ Len(calls) < MaxRuns
    /\ \E download \in AppDownloads(ProcessedSymbols(session_state.portfolio_data)),
          fit \in Fits :
          Ran(download, fit,
              run_analysis(session_state, "Normal Market", num_simulations,
                           time_horizon, download, AppSeries, fit, rng, stdout))
    /\ AppFrame

NextApp ==
    \/ LoadSample
    \/ AddStock
    \/ CreatePortfolio
    \/ ClearBuild
    \/ RunAnalysis

SpecApp == InitApp /\ [][NextApp]_vars

(***************************************************************************)
(* Claims about apply_economic_scenario (SpecScenario).                    *)
(***************************************************************************)
Returned == pc = "done" /\ raised = ""

InputTable == heap[historical_data]

OutputTable == heap[adjusted_data]

\* |x - c| < tol
Near(x, c, tol) == RLt(RSub(x, c), tol) /\ RLt(RSub(c, x), tol)

FullyMissing(df, j) == \A i \in 1..Len(df.index) : IsNaN(df.values[i][j])

AllPriced(df) ==
    \A i \in 1..Len(df.index), j \in 1..Len(df.columns) :
        RGt(df.values[i][j], Zero)

Scenario1Table ==
    DataFrame(<<1, 2>>, <<"JPM">>, <<<<R(100, 1)>>, <<R(105, 1)>>>>)

Scenario1ThreeRows ==
    DataFrame(<<1, 2, 3>>, <<"JPM">>,
              <<<<R(100, 1)>>, <<R(100, 1)>>, <<R(105, 1)>>>>)

\* 0.05*2.5 + (-0.25 - 0.35)/252
Scenario1AdjustedReturn ==
    RAdd(RMul(R(5, 100), R(25, 10)),
         RDiv(RAdd(R(-25, 100), R(-35, 100)), R(252, 1)))

\* C1, as stated: Market Crash applied to the 2-row table [100, 105] of a
\* Financial instrument gives a second price of
\* 100 * (1 + 0.05*2.5 + (-0.25 - 0.35)/252), about 112.2619.
C1_SecondPriceRecomputed ==
    (pc = "done" /\ InputTable = Scenario1Table
        /\ scenario_params = ECONOMIC_SCENARIOS["Market Crash"])
    => /\ raised = ""
       /\ Loc(OutputTable, 2, "JPM")
            = RMul(R(100, 1), RAdd(One, Scenario1AdjustedReturn))
       /\ Near(Loc(OutputTable, 2, "JPM"), R(1122619, 10000), R(1, 10000))

\* C1, amended: on that table the second price stays 105 (the first date of
\* the return index keeps its price; its adjusted return is never applied);
\* the adjusted return 0.05*2.5 + (-0.25 - 0.35)/252 is applied from the
\* third row on: [100, 100, 105] gets the third price 100 * (1 + 0.1226190),
\* about 112.2619.
C1_SecondPriceKept ==
    (pc = "done" /\ scenario_params = ECONOMIC_SCENARIOS["Market Crash"])
    => /\ InputTable = Scenario1Table
            => raised = "" /\ OutputTable = Scenario1Table
       /\ InputTable = Scenario1ThreeRows
            => /\ raised = ""
               /\ Loc(OutputTable, 2, "JPM") = R(100, 1)
               /\ Loc(OutputTable, 3, "JPM")
                    = RMul(R(100, 1), RAdd(One, Scenario1AdjustedReturn))
               /\ Near(Loc(OutputTable, 3, "JPM"), R(1122619, 10000),
                       R(1, 10000))

C1_Witness ==
    /\ Returned
    /\ scenario_params = ECONOMIC_SCENARIOS["Market Crash"]
    /\ InputTable = Scenario1Table
    /\ Loc(OutputTable, 2, "JPM") = R(105, 1)

\* C2: the "Normal Market" scenario applied to any table of positive prices
\* returns a table equal to the input cell for cell.
C2_ScenarioNeutrality ==
    (pc = "done" /\ scenario_params = ECONOMIC_SCENARIOS["Normal Market"]
        /\ AllPriced(InputTable))
    => raised = "" /\ adjusted_data # 0 /\ OutputTable = InputTable

\* C3: the call leaves the input table object as it was, and a table it
\* returns is another object with the input's index and columns, in order.
C3_FramePreserved ==
    [][(pc = "start" /\ pc' = "done")
        => /\ heap'[historical_data] = heap[historical_data]
           /\ raised' = ""
                => /\ adjusted_data' # historical_data
                   /\ heap'[adjusted_data'].index = heap[historical_data].index
                   /\ heap'[adjusted_data'].columns
                        = heap[historical_data].columns]_vars

C3_Witness ==
    /\ Returned
    /\ Len(InputTable.columns) = 2
    /\ OutputTable # InputTable

\* the rows of df that have a return in every column: both the row and the
\* row before it are priced
HasReturn(df, i) ==
    /\ i > 1
    /\ \A j \in 1..Len(df.columns) :
          ~IsNaN(df.values[i][j]) /\ ~IsNaN(df.values[i - 1][j])

\* the last row before i that has a return (0: none)
PrevReturnRow(df, i) ==
    LET before == {k \in 1..(i - 1) : HasReturn(df, k)}
    IN  IF before = {} THEN 0 ELSE CHOOSE k \in before : \A m \in before : m <= k

C5_MissingSeriesTolerated ==
    (pc = "done"
        /\ \/ Len(InputTable.index) < 2
           \/ \E j \in 1..Len(InputTable.columns) : FullyMissing(InputTable, j))
    => raised = "" /\ adjusted_data # 0

(***************************************************************************)
(* Claims about run_monte_carlo_simulation (SpecMonteCarlo).               *)
(***************************************************************************)
RECURSIVE SumOver(_, _)
\* the sum of f[x] over the finite set S
SumOver(S, f) ==
    IF S = {} THEN Zero
    ELSE LET x == CHOOSE y \in S : TRUE
         IN  RAdd(f[x], SumOver(S \ {x}, f))

AllocationSymbols == {portfolio_data[i].Symbol : i \in 1..Len(portfolio_data)}

\* the weight the allocation gives a symbol: that of its first row
InputWeight ==
    [sym \in AllocationSymbols |->
        LET rows == {i \in 1..Len(portfolio_data) : portfolio_data[i].Symbol = sym}
        IN  portfolio_data[CHOOSE i \in rows : \A k \in rows : i <= k].Weight]

\* the allocation symbols that have a column in the price table
SymbolsWithData ==
    {sym \in AllocationSymbols :
        \E j \in 1..Len(InputTable.columns) : InputTable.columns[j] = sym}

\* C6: a returned ensemble's weights are nonnegative and sum to 1, there is
\* one per asset, the assets are the symbols with price data, and weight i
\* is the input weight of asset i over the total input weight of the
\* symbols with price data.
C6_WeightInvariant ==
    Returned =>
        LET w == simulation_data.weights
            a == simulation_data.assets
        IN  /\ Len(w) = Len(a)
            /\ {a[i] : i \in 1..Len(a)} = SymbolsWithData
            /\ \A i \in 1..Len(w) : RLe(Zero, w[i])
            /\ RSum(w) = One
            /\ \A i \in 1..Len(w) :
                  w[i] = RDiv(InputWeight[a[i]], SumOver(SymbolsWithData, InputWeight))

C6_Witness ==
    /\ Returned
    /\ Len(simulation_data.assets) = 2
    /\ SumOver(SymbolsWithData, InputWeight) = R(3, 4)
    /\ simulation_data.weights[1] = R(1, 3)

HalfHalf ==
    <<[Symbol |-> "JPM", Weight |-> R(1, 2)], [Symbol |-> "AAPL", Weight |-> R(1, 2)]>>

\* C7: the allocation [(A, 0.5), (B, 0.5)] on a table with a column for A
\* and none for B does not fail, uses assets [A] with weights [1.0] and
\* prints a warning naming B.
C7_MissingDataRenormalized ==
    (pc = "done" /\ portfolio_data = HalfHalf /\ InputTable.columns = <<"JPM">>)
    => /\ raised = ""
       /\ simulation_data.assets = <<"JPM">>
       /\ simulation_data.weights = <<One>>
       /\ \E k \in 1..Len(stdout) :
             /\ stdout[k].text = "Warning: No historical data found for: "
             /\ stdout[k].names = <<"AAPL">>

C7_Witness ==
    /\ Returned
    /\ portfolio_data = HalfHalf
    /\ InputTable.columns = <<"JPM">>
    /\ Len(InputTable.index) = MaxRows
    /\ Len(stdout) = 1

\* C8: when no allocation symbol has a column in the price table, or the
\* weights of the symbols that have one sum to 0, the call raises
\* ValueError "No valid weights could be calculated", returns no ensemble
\* and has drawn nothing from the generator.
C8_NoValidWeights ==
    [][(pc = "start" /\ pc' = "done"
          /\ \/ SymbolsWithData = {}
             \/ SumOver(SymbolsWithData, InputWeight) = Zero)
        => /\ raised' = "ValueError: No valid weights could be calculated"
           /\ simulation_data' = NoEnsemble
           /\ rng' = IF random_seed = None THEN rng
                     ELSE SeedGenerator(random_seed)]_vars

C8_Witness ==
    /\ pc = "done"
    /\ raised = "ValueError: No valid weights could be calculated"
    /\ SymbolsWithData # {}
    /\ Len(InputTable.index) = MaxRows

\* C9: with num_simulations >= 1 and time_horizon >= 1 a returned ensemble
\* has num_simulations paths of time_horizon values, num_simulations final
\* returns and max drawdowns, percentile curves for exactly 5, 25, 50, 75
\* and 95, each of time_horizon values, and each final return is the last
\* value of its path.
C9_EnsembleShape ==
    (Returned /\ num_simulations >= 1 /\ time_horizon >= 1) =>
        LET e == simulation_data
        IN  /\ DOMAIN e.simulations = 1..num_simulations
            /\ \A i \in 1..num_simulations :
                  DOMAIN e.simulations[i] = 1..time_horizon
            /\ DOMAIN e.final_returns = 1..num_simulations
            /\ DOMAIN e.max_drawdowns = 1..num_simulations
            /\ DOMAIN e.percentiles = {5, 25, 50, 75, 95}
            /\ \A q \in DOMAIN e.percentiles :
                  DOMAIN e.percentiles[q] = 1..time_horizon
            /\ \A i \in 1..num_simulations :
                  e.final_returns[i] = e.simulations[i][time_horizon]

C9_Witness ==
    /\ Returned
    /\ num_simulations = MaxSims
    /\ time_horizon = MaxHorizon
    /\ simulation_data.simulations[1] # simulation_data.simulations[2]
    /\ simulation_data.final_returns[1] = R(5, 4)

\* the running peak of a path at step k: the largest of 0 and the values up
\* to k
PeakAt(path, k) ==
    LET seen == {Zero} \cup {path[m] : m \in 1..k}
    IN  CHOOSE x \in seen : \A y \in seen : RLe(y, x)

\* the drawdown of a path at step k
DrawdownAt(path, k) ==
    RDiv(RSub(PeakAt(path, k), path[k]), RAdd(One, PeakAt(path, k)))

\* C10: a path's stored max drawdown is minus the largest (peak - value) /
\* (1 + peak) over the path, peak being the running maximum started at 0;
\* it is <= 0, and 0 exactly when the path never falls below its running
\* peak.  (A path of NaN never compares below its peak: its entry is 0.)
C10_MaxDrawdown ==
    Returned =>
        \A i \in DOMAIN simulation_data.simulations :
            LET path == simulation_data.simulations[i]
                stored == simulation_data.max_drawdowns[i]
                steps == DOMAIN path
            IN  /\ RLe(stored, Zero)
                /\ stored = Zero <=>
                      ~\E k \in steps : RLt(path[k], PeakAt(path, k - 1))
                /\ (\A k \in steps : ~IsNaN(path[k])) =>
                      /\ \E k \in steps : stored = RNeg(DrawdownAt(path, k))
                      /\ \A k \in steps : RLe(DrawdownAt(path, k), RNeg(stored))
                      /\ \A k \in steps \ {1} :
                            RLe(PeakAt(path, k - 1), PeakAt(path, k))

C10_Witness ==
    /\ Returned
    /\ \E i \in DOMAIN simulation_data.simulations :
          /\ simulation_data.simulations[i] = <<R(1, 2), R(1, 8)>>
          /\ simulation_data.max_drawdowns[i] = R(-1, 4)

(***************************************************************************)
(* Claims about the percentile curves (SpecMonteCarlo).                    *)
(***************************************************************************)
\* the value of the q-th percentile curve of the returned ensemble at step t
PercentileAt(q, t) == simulation_data.percentiles[q][t]

\* the percentile curves of the returned ensemble are ordered at step t
OrderedAt(t) ==
    \A k \in 1..(Len(PercentileLevels) - 1) :
        RLe(PercentileAt(PercentileLevels[k], t),
            PercentileAt(PercentileLevels[k + 1], t))

\* the returned ensemble holds numbers only
NumericEnsemble ==
    /\ num_simulations >= 1
    /\ \A i \in DOMAIN simulation_data.simulations :
          \A t \in DOMAIN simulation_data.simulations[i] :
              ~IsNaN(simulation_data.simulations[i][t])

\* C11: in every ensemble run_monte_carlo_simulation returns, at every time
\* step t the percentile curves exist and satisfy
\* percentiles[5][t] <= percentiles[25][t] <= percentiles[50][t] <=
\* percentiles[75][t] <= percentiles[95][t].
C11_PercentileOrdering ==
    Returned =>
        \A t \in 1..time_horizon : num_simulations >= 1 /\ OrderedAt(t)

\* the ordering does hold in every returned ensemble of numbers, each curve
\* value being the percentile of the step's column over all the paths
PercentilesOrderedOfNumbers ==
    (Returned /\ NumericEnsemble) =>
        \A t \in 1..time_horizon :
            /\ OrderedAt(t)
            /\ \A q \in Range(PercentileLevels) :
                  PercentileAt(q, t) =
                      PercentileOf([i \in 1..num_simulations |->
                                      simulation_data.simulations[i][t]], q)

(***************************************************************************)
(* Claims about the risk metrics (SpecRiskMetrics).                        *)
(***************************************************************************)
FinalReturns == simulation_data.final_returns

MaxDrawdowns == simulation_data.max_drawdowns

\* a simulation returned an ensemble of at least one path whose final
\* returns are numbers
NumericReturns ==
    /\ Simulated
    /\ Len(FinalReturns) >= 1
    /\ \A i \in 1..Len(FinalReturns) : ~IsNaN(FinalReturns[i])

\* the k-th smallest of the values
OrderStatistic(values, k) ==
    CHOOSE x \in Range(values) :
        /\ Cardinality({i \in 1..Len(values) : RLt(values[i], x)}) < k
        /\ Cardinality({i \in 1..Len(values) : RLe(values[i], x)}) >= k

\* the q-th percentile by ranks: the value at position (n - 1) * q / 100 of
\* the ascending values, interpolated linearly between neighbours
RankPercentile(values, q) ==
    LET n == Len(values)
        pos == RDiv(RMul(R(n - 1, 1), q), R(100, 1))
        lo == pos[1] \div pos[2]
    IN  IF lo + 1 >= n THEN OrderStatistic(values, n)
        ELSE RAdd(OrderStatistic(values, lo + 1),
                  RMul(RSub(pos, R(lo, 1)),
                       RSub(OrderStatistic(values, lo + 2),
                            OrderStatistic(values, lo + 1))))

PercentOf(c) == RMul(R(100, 1), RSub(One, c))

\* what calculate_var(simulation_data, c, 'historical') returns
VaRAt(c) == calculate_var(simulation_data, c, "historical", rng, "nan").value

HistoricalCall(k) ==
    calls[k].op = "calculate_var" /\ calls[k].args.method = "historical"

\* C12: for a fixed non-empty final_returns of numbers the historical VaR
\* is -percentile(final_returns, 100 * (1 - c)) and grows with the
\* confidence level: VaR(0.99) >= VaR(0.95) >= VaR(0.90) (and so for every
\* two levels), and that is the value every historical calculate_var call
\* returned.  (The ensemble does not change after the simulation: the
\* levels are compared once, in the state the simulation left.)
C12_VaRMonotonicity ==
    NumericReturns =>
        /\ calls = <<>> =>
              /\ RLe(VaRAt(R(9, 10)), VaRAt(R(19, 20)))
              /\ RLe(VaRAt(R(19, 20)), VaRAt(R(99, 100)))
              /\ \A c1, c2 \in ConfidenceLevels :
                    RLe(c1, c2) => RLe(VaRAt(c1), VaRAt(c2))
              /\ \A c \in ConfidenceLevels :
                    VaRAt(c) = RNeg(RankPercentile(FinalReturns, PercentOf(c)))
        /\ \A k \in DOMAIN calls :
              HistoricalCall(k) =>
                  /\ calls[k].raised = ""
                  /\ calls[k].args.simulation_results = simulation_data
                  /\ calls[k].value = VaRAt(calls[k].args.confidence_level)

C12_Witness ==
    /\ NumericReturns
    /\ Len(FinalReturns) = MaxPaths
    /\ \E k \in DOMAIN calls :
          /\ HistoricalCall(k)
          /\ calls[k].args.confidence_level = R(99, 100)
          /\ RGt(calls[k].value, VaRAt(R(19, 20)))
          /\ RGt(VaRAt(R(19, 20)), VaRAt(R(9, 10)))

\* what calculate_expected_shortfall(simulation_data, c) returns
ESAt(c) == calculate_expected_shortfall(simulation_data, c, "nan").value

ShortfallCall(k) == calls[k].op = "calculate_expected_shortfall"

\* C13: for every non-empty final_returns of numbers and every confidence
\* level the expected shortfall is at least the historical VaR at the same
\* level, and so is the value every calculate_expected_shortfall call
\* returned.
C13_ESDominance ==
    NumericReturns =>
        /\ calls = <<>> => \A c \in ConfidenceLevels : RLe(VaRAt(c), ESAt(c))
        /\ \A k \in DOMAIN calls :
              ShortfallCall(k) =>
                  /\ calls[k].raised = ""
                  /\ RLe(VaRAt(calls[k].args.confidence_level), calls[k].value)

C13_Witness ==
    /\ NumericReturns
    /\ Len(FinalReturns) = MaxPaths
    /\ \E k \in DOMAIN calls :
          /\ ShortfallCall(k)
          /\ calls[k].args.confidence_level = R(19, 20)
          /\ RGt(calls[k].value, VaRAt(R(19, 20)))

\* the paths whose loss -final_returns is strictly greater than v
PathsLosingMoreThan(v) ==
    {i \in 1..Len(FinalReturns) : RGt(RNeg(FinalReturns[i]), v)}

\* C14: calculate_expected_shortfall returns the mean of the losses
\* -final_returns that are strictly greater than the historical VaR at the
\* same confidence level, and VaR itself when no loss is strictly greater.
C14_ESDefinition ==
    NumericReturns =>
        \A k \in DOMAIN calls :
            ShortfallCall(k) =>
                LET var == VaRAt(calls[k].args.confidence_level)
                    tail == PathsLosingMoreThan(var)
                IN  /\ calls[k].raised = ""
                    /\ tail = {} => calls[k].value = var
                    /\ tail # {} =>
                          RMul(calls[k].value, R(Cardinality(tail), 1)) =
                              SumOver(tail, Negated(FinalReturns))

\* the example: every final return 0.02, c = 0.95, VaR = ES = -0.02
C14_Witness ==
    /\ NumericReturns
    /\ Len(FinalReturns) = MaxSims
    /\ \A i \in 1..Len(FinalReturns) : FinalReturns[i] = R(2, 100)
    /\ \E k \in DOMAIN calls :
          /\ ShortfallCall(k)
          /\ calls[k].args.confidence_level = R(95, 100)
          /\ VaRAt(R(95, 100)) = R(-2, 100)
          /\ calls[k].value = R(-2, 100)

\* a state where the tail is not empty and the mean is taken
C14_TailMeanTaken ==
    /\ NumericReturns
    /\ \E k \in DOMAIN calls :
          /\ ShortfallCall(k)
          /\ Cardinality(PathsLosingMoreThan(VaRAt(calls[k].args.confidence_level))) >= 2
          /\ RGt(calls[k].value, VaRAt(calls[k].args.confidence_level))

DrawdownCall(k) == calls[k].op = "calculate_drawdown_metrics"

ConditionalDrawdownCall(k) == calls[k].op = "calculate_conditional_drawdown"

\* the drawdown-at-risk of the ensemble at level c
DaRAt(c) == RNeg(Percentile(MaxDrawdowns, PercentOf(c)))

\* no path's max drawdown is strictly worse (more negative) than -dar
NoneWorseThan(dar) ==
    ~\E i \in 1..Len(MaxDrawdowns) : RLt(MaxDrawdowns[i], RNeg(dar))

\* C15: when no path's max drawdown is strictly worse than -DaR, the
\* conditional drawdown-at-risk that calculate_drawdown_metrics and
\* calculate_conditional_drawdown return equals DaR, the positive-signed
\* value reported as drawdown_at_risk.
C15_CDaRFallback ==
    (Simulated /\ Len(MaxDrawdowns) >= 1) =>
        \A k \in DOMAIN calls :
            /\ (DrawdownCall(k) /\ NoneWorseThan(calls[k].value.drawdown_at_risk)) =>
                  calls[k].value.conditional_drawdown_at_risk =
                      calls[k].value.drawdown_at_risk
            /\ (ConditionalDrawdownCall(k)
                  /\ NoneWorseThan(DaRAt(calls[k].args.confidence_level))) =>
                  calls[k].value = DaRAt(calls[k].args.confidence_level)

\* what the two functions return in that case: the negation of DaR
CDaRFallbackIsMinusDaR ==
    (Simulated /\ Len(MaxDrawdowns) >= 1) =>
        \A k \in DOMAIN calls :
            /\ (DrawdownCall(k) /\ NoneWorseThan(calls[k].value.drawdown_at_risk)) =>
                  /\ calls[k].value.drawdown_at_risk =
                        DaRAt(calls[k].args.confidence_level)
                  /\ calls[k].value.conditional_drawdown_at_risk =
                        RNeg(calls[k].value.drawdown_at_risk)
            /\ (ConditionalDrawdownCall(k)
                  /\ NoneWorseThan(DaRAt(calls[k].args.confidence_level))) =>
                  calls[k].value = RNeg(DaRAt(calls[k].args.confidence_level))

\* the fallback taken with a drawdown-at-risk that is not 0
CDaRFallbackTaken ==
    /\ Simulated
    /\ \E k \in DOMAIN calls :
          /\ DrawdownCall(k)
          /\ NoneWorseThan(calls[k].value.drawdown_at_risk)
          /\ RGt(calls[k].value.drawdown_at_risk, Zero)

\* the reported metrics of a drawdown-metrics call are those of the claim
DrawdownMetricsHold(k) ==
    LET m == calls[k].value
        n == Len(MaxDrawdowns)
    IN  /\ calls[k].raised = ""
        /\ RLe(Zero, m.max_drawdown)
        /\ RLe(Zero, m.avg_drawdown)
        /\ RLe(Zero, m.drawdown_at_risk)
        /\ RLe(m.avg_drawdown, m.max_drawdown)
        /\ RMul(m.avg_drawdown, R(n, 1)) =
              SumOver(1..n, Negated(MaxDrawdowns))
        /\ \E i \in 1..n : m.max_drawdown = RNeg(MaxDrawdowns[i])
        /\ \A i \in 1..n : RLe(RNeg(MaxDrawdowns[i]), m.max_drawdown)

\* C16: for every ensemble run_monte_carlo_simulation produced,
\* calculate_drawdown_metrics reports max_drawdown >= 0, avg_drawdown >= 0,
\* drawdown_at_risk >= 0 and avg_drawdown <= max_drawdown, avg_drawdown
\* being the mean of -max_drawdowns and max_drawdown the positive magnitude
\* of the most negative entry.
C16_DrawdownMetrics ==
    Simulated => \A k \in DOMAIN calls : DrawdownCall(k) => DrawdownMetricsHold(k)

\* the metrics do hold for every ensemble of at least one path
DrawdownMetricsOfPaths ==
    (Simulated /\ Len(MaxDrawdowns) >= 1) =>
        \A k \in DOMAIN calls : DrawdownCall(k) => DrawdownMetricsHold(k)

(***************************************************************************)
(* Claims about calls that share a process (SpecSession).                  *)
(***************************************************************************)
SimulationCall(k) == calls[k].op = "run_monte_carlo_simulation"

SeededTwice(i, j) ==
    /\ i < j
    /\ SimulationCall(i)
    /\ SimulationCall(j)
    /\ calls[i].args.random_seed # None
    /\ calls[i].args = calls[j].args

\* C17: two calls of run_monte_carlo_simulation with identical inputs and
\* the same random_seed (not None) return identical simulations,
\* final_returns, max_drawdowns and percentiles, whatever calls (other
\* simulations, calculate_var calls that draw from the generator) ran
\* before or between them.
C17_Reproducibility ==
    \A i, j \in DOMAIN calls :
        SeededTwice(i, j) =>
            /\ calls[i].raised = calls[j].raised
            /\ calls[i].value.simulations = calls[j].value.simulations
            /\ calls[i].value.final_returns = calls[j].value.final_returns
            /\ calls[i].value.max_drawdowns = calls[j].value.max_drawdowns
            /\ calls[i].value.percentiles = calls[j].value.percentiles

C17_Witness ==
    /\ Len(calls) = 3
    /\ SeededTwice(1, 3)
    /\ calls[1].args.num_simulations = MaxSims
    /\ calls[2].op = "calculate_var"
    /\ calls[2].args.method = "parametric"
    /\ calls[1].raised = ""
    /\ calls[1].value.simulations[1] # calls[1].value.simulations[2]
    /\ calls[3].value.simulations = calls[1].value.simulations

\* two risk values are the same number
SameRisk(v1, v2) ==
    \/ v1 = v2
    \/ /\ ~IsNaN(v1.mean)
       /\ v1.mean = v2.mean
       /\ v1.variance = Zero
       /\ v2.variance = Zero

SameVarCall(i, j) ==
    /\ i < j
    /\ calls[i].op = "calculate_var"
    /\ calls[j].op = "calculate_var"
    /\ calls[i].args = calls[j].args

\* C18: the components carry no state across calls: two calculate_var calls
\* with the same arguments (any method) return the same value, two seeded
\* simulations with the same arguments return the same ensemble, and a
\* calculate_var call or a seeded simulation leaves numpy's global
\* generator, which later calls draw from, as it found it.
C18_NoStateAcrossCalls ==
    /\ \A i, j \in DOMAIN calls :
          SameVarCall(i, j) =>
              /\ calls[i].raised = calls[j].raised
              /\ SameRisk(calls[i].value, calls[j].value)
    /\ C17_Reproducibility

\* a parametric calculate_var call draws from the global generator: the
\* generator after it is not the one before it
ParametricVarMovesGenerator ==
    [][\A m \in {"parametric", "cornish_fisher"} :
          (pc = "session" /\ Len(calls') = Len(calls) + 1
             /\ calls'[Len(calls')].op = "calculate_var"
             /\ calls'[Len(calls')].args.method = m) => rng' # rng]_vars

(***************************************************************************)
(* Claims about the parametric VaR (SpecRiskMetrics) and about the         *)
(* simulation's arguments (SpecMonteCarlo).                                *)
(***************************************************************************)
StdMethodCall(k) ==
    /\ calls[k].op = "calculate_var"
    /\ calls[k].args.method \in {"parametric", "cornish_fisher"}
    /\ ~IsNaN(calls[k].value.mean)

\* the z a call multiplied the standard deviation by
ZOf(k) ==
    IF calls[k].args.method = "parametric" THEN calls[k].value.z
    ELSE calls[k].value.z.z_score

\* C19: calculate_var 'parametric' returns -(mean + z * std) of the final
\* returns, z being the (1 - c)-quantile of the standard normal: for
\* c > 0.5, z < 0 and the result is >= -mean (z * std <= 0);
\* 'cornish_fisher' puts the same z into its expansion.
C19_ParametricVaR ==
    NumericReturns =>
        \A k \in DOMAIN calls :
            (StdMethodCall(k) /\ RGt(calls[k].args.confidence_level, R(1, 2))) =>
                /\ calls[k].value.mean = Mean(FinalReturns)
                /\ calls[k].value.variance = Variance(FinalReturns)
                /\ RLt(ZOf(k), Zero)
                /\ calls[k].args.method = "parametric" =>
                      (RLe(calls[k].value.z, Zero) \/ calls[k].value.variance = Zero)

\* a parametric call at c = 0.95 whose result is below -mean: the z it used
\* is positive and the final returns vary
ParametricVaRBelowMinusMean ==
    /\ NumericReturns
    /\ \E k \in DOMAIN calls :
          /\ StdMethodCall(k)
          /\ calls[k].args.method = "parametric"
          /\ calls[k].args.confidence_level = R(95, 100)
          /\ RGt(calls[k].value.z, Zero)
          /\ RGt(calls[k].value.variance, Zero)

\* the z of a call is minus the sample quantile the call drew
ZIsMinusSampleQuantile ==
    [][\A c \in ConfidenceLevels :
          (pc = "done" /\ calls = <<>> /\ calls' # <<>>
             /\ calls'[1].op = "calculate_var"
             /\ calls'[1].args.method = "parametric"
             /\ calls'[1].args.confidence_level = c
             /\ ~IsNaN(calls'[1].value.mean)) =>
              calls'[1].value.z =
                  RNeg(RankPercentile(NormalSample(rng, Zero, One, QuantileDraws),
                                      PercentOf(c)))]_vars

\* the exceptions the simulation raises for other reasons than its count
\* or horizon arguments
OtherErrors == {"IndexError", "ValueError: No valid weights could be calculated"}

\* C20: run_monte_carlo_simulation called with num_simulations <= 0 or
\* time_horizon <= 0 never returns an ensemble: it raises an input error
\* that names the count or the horizon.
C20_NonPositiveRejected ==
    (pc = "done" /\ (num_simulations <= 0 \/ time_horizon <= 0)) =>
        /\ raised # ""
        /\ raised \notin OtherErrors

\* what the code does with them: an ensemble of no paths, or an IndexError
NonPositiveOutcomes ==
    (pc = "done" /\ (num_simulations <= 0 \/ time_horizon <= 0)
       /\ HasValidWeights([i \in 1..1 |-> portfolio_data[1].Weight])) =>
        \/ raised = "IndexError"
        \/ /\ raised = ""
           /\ num_simulations <= 0
           /\ simulation_data.simulations = <<>>
           /\ simulation_data.final_returns = <<>>

EmptyEnsembleReturned ==
    /\ Returned
    /\ num_simulations = 0
    /\ time_horizon = MaxHorizon
    /\ simulation_data.final_returns = <<>>
    /\ simulation_data.time_horizon = MaxHorizon

(***************************************************************************)
(* Claims about the risk-adjusted metrics (SpecRiskAdjusted).              *)
(***************************************************************************)
RiskAdjustedCall(k) ==
    /\ calls[k].op = "calculate_risk_adjusted_metrics"
    /\ calls[k].raised = ""

NegativeReturns == Below(FinalReturns, Zero)

Factor2 == R(252, simulation_data.time_horizon)

AnnualizedMean == Annualized(Mean(FinalReturns), Factor2)

AnnualizedVolatility == Deviation(Variance(FinalReturns), Factor2)

\* the annualized std of the negative final returns
AnnualizedDownside == Deviation(Variance(NegativeReturns), Factor2)

\* the magnitude of the worst drawdown of the ensemble's paths
MaxDrawdownMagnitude ==
    CHOOSE d \in {RNeg(MaxDrawdowns[i]) : i \in 1..Len(MaxDrawdowns)} :
        \A i \in 1..Len(MaxDrawdowns) : RLe(RNeg(MaxDrawdowns[i]), d)

SharpeAsClaimed(v) ==
    IF Variance(FinalReturns) = Zero THEN v.sharpe_ratio = ZeroRatio
    ELSE v.sharpe_ratio = Quotient(AnnualizedMean, AnnualizedVolatility)

CalmarAsClaimed(v) ==
    IF MaxDrawdownMagnitude = Zero THEN v.calmar_ratio = ZeroRatio
    ELSE v.calmar_ratio =
             Quotient(AnnualizedMean, Constant(MaxDrawdownMagnitude, Factor2))

\* C23: calculate_risk_adjusted_metrics returns Sharpe = annualized mean /
\* annualized volatility, or 0 when the volatility is 0; Sortino =
\* annualized mean / annualized std of the negative final returns, the
\* floor 1e-6 being the denominator when no final return is negative;
\* Calmar = annualized mean / max drawdown magnitude, or 0 when that is 0.
C23_RiskAdjustedRatios ==
    NumericReturns =>
        \A k \in DOMAIN calls :
            RiskAdjustedCall(k) =>
                LET v == calls[k].value
                IN  /\ SharpeAsClaimed(v)
                    /\ CalmarAsClaimed(v)
                    /\ v.sortino_ratio =
                           IF NegativeReturns = <<>>
                           THEN Quotient(AnnualizedMean,
                                         Constant(DownsideFloor, Factor2))
                           ELSE Quotient(AnnualizedMean, AnnualizedDownside)

\* C23 as amended: the Sortino ratio is 0 when final returns are negative
\* but their deviation is 0 (one negative return, or all of them equal).
C23_RiskAdjustedRatiosAmended ==
    NumericReturns =>
        \A k \in DOMAIN calls :
            RiskAdjustedCall(k) =>
                LET v == calls[k].value
                IN  /\ SharpeAsClaimed(v)
                    /\ CalmarAsClaimed(v)
                    /\ v.sortino_ratio =
                           IF NegativeReturns = <<>>
                           THEN Quotient(AnnualizedMean,
                                         Constant(DownsideFloor, Factor2))
                           ELSE IF Variance(NegativeReturns) = Zero
                           THEN ZeroRatio
                           ELSE Quotient(AnnualizedMean, AnnualizedDownside)

\* a call on an ensemble with two different negative final returns and a
\* drawdown: the three ratios are quotients
C23_Witness ==
    /\ NumericReturns
    /\ \E k \in DOMAIN calls :
          /\ RiskAdjustedCall(k)
          /\ RGt(Variance(NegativeReturns), Zero)
          /\ RGt(MaxDrawdownMagnitude, Zero)
          /\ calls[k].value.sortino_ratio =
                 Quotient(AnnualizedMean, AnnualizedDownside)

\* a call on an ensemble with no negative final return: the floor divides
C23_FloorTaken ==
    /\ NumericReturns
    /\ \E k \in DOMAIN calls :
          /\ RiskAdjustedCall(k)
          /\ NegativeReturns = <<>>
          /\ calls[k].value.sortino_ratio.den = Constant(DownsideFloor, Factor2)

\* the denominators the call divided by are positive numbers
DividesByPositive(v) ==
    \A ratio \in {v.sharpe_ratio, v.sortino_ratio, v.calmar_ratio} :
        Positive(ratio.den)

\* C30: calculate_risk_adjusted_metrics never divides by zero for any
\* non-empty final_returns: when the downside deviation is 0 although
\* final returns are negative, the Sortino ratio returned is 0, not
\* mean / 1e-6 and not a quotient by 0.
C30_NoDivisionByZero ==
    (\E k \in DOMAIN calls : calls[k].op = "calculate_risk_adjusted_metrics")
    /\ FinalReturns # <<>> =>
        \A k \in DOMAIN calls :
            /\ calls[k].raised = ""
            /\ DividesByPositive(calls[k].value)
            /\ (NumericReturns /\ NegativeReturns # <<>>
                  /\ Variance(NegativeReturns) = Zero) =>
                   calls[k].value.sortino_ratio = ZeroRatio

\* a call on an ensemble whose negative final returns do not vary
C30_Witness ==
    /\ NumericReturns
    /\ \E k \in DOMAIN calls :
          /\ RiskAdjustedCall(k)
          /\ NegativeReturns # <<>>
          /\ Variance(NegativeReturns) = Zero
          /\ calls[k].value.downside_deviation = AnnualizedDownside
          /\ calls[k].value.sortino_ratio = ZeroRatio

(***************************************************************************)
(* Claims about the scenario catalog (SpecCatalog).                        *)
(***************************************************************************)
\* C22: the scenario catalog is immutable: after any sequence of
\* generate_custom_scenario, get_scenario_description and
\* apply_economic_scenario calls every entry of ECONOMIC_SCENARIOS, its
\* nested impact_factor table included, still has its original values.
C22_CatalogImmutable ==
    pc = "catalog" =>
        \A name \in ScenarioNames :
            CatalogEntry(heap, name) = ECONOMIC_SCENARIOS[name]

\* the direct parameters of every entry keep their values: only the
\* impact_factor tables, which the copies share, are written
DirectParametersKept ==
    pc = "catalog" =>
        \A name \in ScenarioNames :
            heap[ScenarioRef(name)] = CatalogObjects[ScenarioRef(name)]

\* only a generate_custom_scenario call with an impact_factor adjustment
\* changes a catalog object
CatalogWrittenOnlyByNestedAdjustment ==
    [][(pc = "catalog"
          /\ \E ref \in DOMAIN CatalogObjects : heap'[ref] # heap[ref]) =>
        LET call == calls'[Len(calls')]
        IN  /\ call.op = "generate_custom_scenario"
            /\ \E k \in DOMAIN call.args.custom_adjustments :
                  call.args.custom_adjustments[k].key = "impact_factor"]_vars

\* Market Crash's Financial impact is no longer -0.35, and a later
\* apply_economic_scenario with the catalog's Market Crash entry returns
\* other prices than the first one did
MarketCrashOverwritten ==
    /\ pc = "catalog"
    /\ CatalogEntry(heap, "Market Crash").impact_factor["Financial"] = R(-1, 2)
    /\ CatalogEntry(heap, "Market Crash").returns_adjustment = R(-25, 100)
    /\ \E i, j \in DOMAIN calls :
          /\ i < j
          /\ calls[i].op = "apply_economic_scenario"
          /\ calls[j].op = "apply_economic_scenario"
          /\ calls[i].args = calls[j].args
          /\ calls[i].args.scenario_name = "Market Crash"
          /\ calls[i].value # calls[j].value

UnknownNameCall(k) ==
    \/ /\ calls[k].op = "generate_custom_scenario"
       /\ calls[k].args.base_scenario \notin ScenarioNames
    \/ /\ calls[k].op = "get_scenario_description"
       /\ calls[k].args.scenario_name \notin ScenarioNames

\* C25: every catalog operation given a scenario name that is not in
\* ECONOMIC_SCENARIOS reports an error to its caller instead of returning
\* a normal result: generate_custom_scenario raises ValueError and
\* get_scenario_description returns no description value.
C25_UnknownScenarioReported ==
    \A k \in DOMAIN calls : UnknownNameCall(k) => calls[k].raised # ""

\* what the code does: generate_custom_scenario raises and leaves the heap
\* as it was, get_scenario_description returns the str "Scenario not found"
UnknownNameOutcomes ==
    [][\A k \in DOMAIN calls' :
          (k = Len(calls') /\ k > Len(calls) /\ UnknownNameCall(k)') =>
              /\ heap' = heap
              /\ IF calls'[k].op = "generate_custom_scenario"
                 THEN calls'[k].raised = "ValueError: Base scenario not found"
                 ELSE /\ calls'[k].raised = ""
                      /\ calls'[k].value = "Scenario not found"]_vars

UnknownDescriptionReturned ==
    \E k \in DOMAIN calls :
        /\ calls[k].op = "get_scenario_description"
        /\ calls[k].args.scenario_name = "Stagflation"
        /\ calls[k].value = "Scenario not found"
        /\ calls[k].raised = ""

(***************************************************************************)
(* Claims about the data pipeline (SpecPipeline).                          *)
(***************************************************************************)
FetchCall(k) == calls[k].op = "fetch_historical_data"

\* the download of the call raised, or its data has no close prices
DownloadFailed(k) ==
    calls[k].args.download.raised \/ ~calls[k].args.download.has_close

\* C21: when the external price download fails (raises, or yields data
\* whose close prices cannot be extracted), fetch_historical_data
\* propagates an error to its caller and returns no price table; it never
\* returns fabricated prices.
C21_FetchFailurePropagates ==
    \A k \in DOMAIN calls :
        (FetchCall(k) /\ DownloadFailed(k)) => calls[k].raised # ""

\* what the code does: no fetch call raises, each returns a table with
\* rows and columns
FetchAlwaysReturnsPrices ==
    \A k \in DOMAIN calls :
        FetchCall(k) => calls[k].raised = "" /\ ~Empty(calls[k].value)

\* the download raised, random prices came back under the requested names
\* and the simulation ran on them
FabricatedPricesSimulated ==
    /\ pc = "done"
    /\ raised = ""
    /\ simulation_data # NoEnsemble
    /\ \E k \in DOMAIN calls :
          /\ FetchCall(k)
          /\ calls[k].args.download.raised
          /\ calls[k].value.columns = calls[k].args.symbols
          /\ \E series \in RandomSeries :
                calls[k].value = SameSeriesTable(calls[k].args.symbols, series)

\* the call returned the downloaded close prices (the success path)
FetchSucceeded(k) ==
    /\ FetchCall(k)
    /\ ~calls[k].args.download.raised
    /\ calls[k].args.download.has_close
    /\ ~Empty(calls[k].args.download.close)

\* a requested symbol whose ticker has downloaded data in call k
HasDownloadedData(k, symbol) ==
    /\ symbol \in Range(calls[k].args.symbols)
    /\ ProcessedSymbol(symbol) \in Range(calls[k].args.download.close.columns)

\* C28: each column of the table fetch_historical_data returns on the
\* success path is named by the symbol exactly as requested, so every
\* requested symbol that has downloaded data is found by name by
\* run_monte_carlo_simulation, the symbols requested with '.JK' included.
C28_ColumnsNamedAsRequested ==
    \A k \in DOMAIN calls :
        FetchSucceeded(k) =>
            /\ Range(calls[k].value.columns) \subseteq Range(calls[k].args.symbols)
            /\ \A symbol \in Range(calls[k].args.symbols) :
                  HasDownloadedData(k, symbol) =>
                      /\ symbol \in Range(calls[k].value.columns)
                      /\ (pc = "done" /\ simulation_data # NoEnsemble) =>
                             symbol \in Range(simulation_data.assets)

\* the property holds of the symbols requested without the suffix
BareNamesKept ==
    \A k \in DOMAIN calls :
        FetchSucceeded(k) =>
            \A symbol \in Range(calls[k].args.symbols) :
                (HasDownloadedData(k, symbol) /\ symbol \notin DOMAIN WithoutJK) =>
                    /\ symbol \in Range(calls[k].value.columns)
                    /\ (pc = "done" /\ simulation_data # NoEnsemble) =>
                           symbol \in Range(simulation_data.assets)

\* 'BBCA.JK' was requested next to 'JPM' and downloaded, its column came
\* back as 'BBCA', and the simulation ran on JPM alone
SuffixedSymbolLost ==
    /\ pc = "done"
    /\ simulation_data # NoEnsemble
    /\ simulation_data.assets = <<"JPM">>
    /\ \E k \in DOMAIN calls :
          /\ FetchSucceeded(k)
          /\ calls[k].args.symbols = <<"BBCA.JK", "JPM">>
          /\ calls[k].value.columns = <<"BBCA", "JPM">>

\* the table the scenario transform returned
Adjusted == heap[adjusted_data]

\* the price the transform gives column at the third date when the
\* column's sector impact is sector_impact
ThirdPriceWith(column, sector_impact) ==
    LET df == heap[historical_data]
        r == RSub(RDiv(Loc(df, 3, column), Loc(df, 2, column)), One)
        adj == RAdd(RMul(r, scenario_params.volatility_adjustment),
                    RDiv(RAdd(scenario_params.returns_adjustment, sector_impact),
                         R(TradingDays, 1)))
    IN  RMul(Loc(df, 2, column), RAdd(One, adj))

Transformed ==
    /\ pc = "done"
    /\ adjusted_data # 0
    /\ Len(heap[historical_data].index) >= 3

\* C29: get_symbol_sector returns the mapped sector for every identifier
\* in SECTOR_MAPPING and "Unknown" for any other; and in the pipeline every
\* Indonesian stock of the sample portfolio (BBCA, column name as produced
\* by fetch_historical_data) resolves to its listed sector (Financial), so
\* that the scenario's sector impact factor is applied to it.
C29_SectorResolved ==
    /\ \A s \in DOMAIN SECTOR_MAPPING : get_symbol_sector(s) = SECTOR_MAPPING[s]
    /\ \A s \in (Symbols \cup {"GOTO"}) \ DOMAIN SECTOR_MAPPING :
          get_symbol_sector(s) = "Unknown"
    /\ \A k \in DOMAIN calls :
          (FetchCall(k) /\ Transformed) =>
              \A j \in 1..Len(Adjusted.columns) :
                  LET column == Adjusted.columns[j]
                  IN  column \in IndonesianStocks =>
                          /\ get_symbol_sector(column)
                                 = SECTOR_MAPPING[WithJK[column]]
                          /\ Loc(Adjusted, 3, column) =
                                 ThirdPriceWith(column,
                                     scenario_params.impact_factor[
                                         SECTOR_MAPPING[WithJK[column]]])

\* the static part of C29, and what the pipeline does: every column gets
\* the impact of the sector its name has in SECTOR_MAPPING, which is none
\* for a bare Indonesian name
SectorOfColumnName ==
    /\ \A s \in DOMAIN SECTOR_MAPPING : get_symbol_sector(s) = SECTOR_MAPPING[s]
    /\ \A s \in (Symbols \cup {"GOTO"}) \ DOMAIN SECTOR_MAPPING :
          get_symbol_sector(s) = "Unknown"
    /\ Transformed =>
          \A j \in 1..Len(Adjusted.columns) :
              LET column == Adjusted.columns[j]
              IN  Loc(Adjusted, 3, column) =
                      ThirdPriceWith(column,
                          DictGet(scenario_params.impact_factor,
                                  get_symbol_sector(column), Zero))

\* BBCA downloaded under 'BBCA.JK', returned as 'BBCA' and transformed under
\* Market Crash without the Financial impact
BBCATransformedAsUnknown ==
    /\ Transformed
    /\ scenario_params = ECONOMIC_SCENARIOS["Market Crash"]
    /\ \E k \in DOMAIN calls :
          /\ FetchSucceeded(k)
          /\ calls[k].args.symbols = <<"BBCA">>
          /\ calls[k].args.download.close.columns = <<"BBCA.JK">>
    /\ Adjusted.columns = <<"BBCA">>
    /\ Loc(Adjusted, 3, "BBCA") = ThirdPriceWith("BBCA", Zero)
    /\ Loc(Adjusted, 3, "BBCA") # ThirdPriceWith("BBCA", R(-35, 100))


(***************************************************************************)
(* Claims about the app (SpecApp).                                         *)
(***************************************************************************)
\* the step is a run of the analysis; LastRun is its entry in the log
RunTaken == Len(calls') = Len(calls) + 1

LastRun == calls'[Len(calls')]

InOrder(steps) ==
    /\ Len(steps) \in 1..Len(StepOrder)
    /\ \A i \in 1..Len(steps) : steps[i].step = StepOrder[i]
    /\ \A i \in 1..(Len(steps) - 1) : steps[i].raised = ""

FailedBeforeForecast(steps) ==
    \E i \in 1..Len(steps) : steps[i].step # "forecast" /\ steps[i].raised # ""

OnlyForecastFailed(steps) ==
    \E i \in 1..Len(steps) :
        /\ steps[i].step = "forecast" /\ steps[i].raised # ""
        /\ \A j \in 1..Len(steps) : j # i => steps[j].raised = ""

\* the session the same run leaves when its forecast succeeds
SessionWithForecast ==
    run_analysis(session_state, "Normal Market", num_simulations, time_horizon,
                 LastRun.args.download, AppSeries, "arima", rng, stdout).session

\* C24: in a run of the analysis the steps are entered in the order fetch,
\* scenario, Monte Carlo, risk metrics, forecast, each after the one before
\* it ended without an exception; when a step before the forecast fails, no
\* risk-metrics step of the run completes and the session's risk metrics
\* stay what they were; when only the forecast fails, the run ends without
\* an exception, the session holds the simulation results and risk metrics
\* the run stores when its forecast succeeds, and forecast_data is None.
C24_RunSteps ==
    [][RunTaken =>
        LET steps == LastRun.value
        IN  /\ InOrder(steps)
            /\ FailedBeforeForecast(steps) =>
                  /\ \A i \in 1..Len(steps) :
                        steps[i].step = "risk_metrics" => steps[i].raised # ""
                  /\ session_state'.risk_metrics = session_state.risk_metrics
            /\ OnlyForecastFailed(steps) =>
                  /\ LastRun.raised = ""
                  /\ session_state'.simulation_results # PyNone
                  /\ session_state'.simulation_results =
                         SessionWithForecast.simulation_results
                  /\ session_state'.risk_metrics = SessionWithForecast.risk_metrics
                  /\ session_state'.forecast_data = PyNone]_vars

\* a run that failed in its Monte Carlo step, then a run whose forecast
\* alone failed, its results and metrics held with forecast_data None
C24_Witness ==
    /\ Len(calls) = 2
    /\ FailedBeforeForecast(calls[1].value)
    /\ calls[1].value[Len(calls[1].value)].step = "monte_carlo"
    /\ OnlyForecastFailed(calls[2].value)
    /\ session_state.simulation_results # PyNone
    /\ session_state.risk_metrics # PyNone
    /\ session_state.forecast_data = PyNone

\* C26: in every state of the session simulation_results is None exactly
\* when risk_metrics is None, and a run that ends with an exception leaves
\* simulation_results, risk_metrics and forecast_data as they were.
C26_ResultsAndMetricsTogether ==
    /\ [](session_state.simulation_results = PyNone
              <=> session_state.risk_metrics = PyNone)
    /\ [][RunTaken /\ LastRun.raised # "" =>
            /\ session_state'.simulation_results = session_state.simulation_results
            /\ session_state'.risk_metrics = session_state.risk_metrics
            /\ session_state'.forecast_data = session_state.forecast_data]_vars

\* a completed run, then a failed one: the first run's results are held
C26_Witness ==
    /\ Len(calls) = 2
    /\ calls[1].raised = ""
    /\ calls[2].raised # ""
    /\ session_state.simulation_results # PyNone
    /\ session_state.risk_metrics # PyNone

\* the portfolio of the last run that stored its results
IsLastStoringRun(i) ==
    /\ i \in 1..Len(calls)
    /\ calls[i].raised = ""
    /\ \A j \in (i + 1)..Len(calls) : calls[j].raised # ""

\* C27: whenever simulation_results is not None, the run that stored it
\* was given the portfolio now held in session_state.portfolio_data.
C27_ResultsOfHeldPortfolio ==
    session_state.simulation_results # PyNone =>
        \E i \in 1..Len(calls) :
            /\ IsLastStoringRun(i)
            /\ calls[i].args.portfolio_data = session_state.portfolio_data

\* what the handlers do: only a run of the analysis writes the results
ResultsWrittenOnlyByRun ==
    [][~RunTaken =>
          /\ session_state'.simulation_results = session_state.simulation_results
          /\ session_state'.risk_metrics = session_state.risk_metrics
          /\ session_state'.forecast_data = session_state.forecast_data]_vars

\* results of the sample portfolio held while the built portfolio is shown
StaleResultsHeld ==
    /\ session_state.simulation_results # PyNone
    /\ \E i \in 1..Len(calls) :
          /\ IsLastStoringRun(i)
          /\ calls[i].args.portfolio_data = load_sample_data
    /\ session_state.portfolio_data # load_sample_data
    /\ session_state.portfolio_data # <<>>

=============================================================================
